---- MODULE Spec2Model ----
(***************************************************************************)
(* A model of rimg's decode-and-normalise pipeline (src/src/image_loader.rs) *)
(*                                                                         *)
(* Three specifications share the module's variables:                      *)
(*   Spec        the pixel buffer (RgbaImage) and the orientation          *)
(*               transforms, applied as pure functions to drawn inputs;    *)
(*   ExifSpec    the container tag extractors and the TIFF/EXIF walker,    *)
(*               applied to drawn byte sequences;                          *)
(*   DecodeSpec  the format decoders reached from load_image, one step     *)
(*               per library call or check, in the order of the code.      *)
(***************************************************************************)
EXTENDS Integers, Sequences, FiniteSets, TLC

VARIABLES
    op,          \* Spec, ExifSpec: the function applied ("init" before the call)
    inp,         \* its arguments
    out,         \* its result
    file,        \* DecodeSpec: the file on disk, as drawn
    fmt,         \* the decoder load_image dispatched to
    pc,          \* the decoder's position: an index into Program(fmt), 0 outside a decode
    bytes_read,  \* bytes of the file read so far, by the program or by a library
    dims,        \* the <<width, height>> the decoder works with
    log,         \* the calls and checks made so far, in order
    idx,         \* frames of the file the frame loop has started
    frames,      \* entries of the decoder's frames vector
    result       \* "none" while decoding, then "Static", "Animated", "Thumbnail" or "Err"

vars == <<op, inp, out, file, fmt, pc, bytes_read, dims, log, idx, frames, result>>
pureVars == <<op, inp, out>>
decVars == <<file, fmt, pc, bytes_read, dims, log, idx, frames, result>>

\* ------------------------------------------------------------------------
\* Bounds of the model
\* ------------------------------------------------------------------------

\* usize::MAX of the model's machine word.  The program is built for 64-bit
\* targets, where the product of two u32 values always fits a usize and only
\* the multiplication by 4 can overflow; the dimensions below keep that shape.
UsizeMax == 63
\* Largest width or height handed to the constructors.
MaxDim == 4
\* Longest byte vector handed to from_raw.
MaxData == 40
\* Largest side of an image handed to the orientation transforms.
MaxSide == 3
\* Number of different pixel fillings of a drawn image.
NumFills == 2

\* ------------------------------------------------------------------------
\* Program constants
\* ------------------------------------------------------------------------

MAX_PIXEL_COUNT == 268435456
MAX_FILE_SIZE == 536870912

\* ------------------------------------------------------------------------
\* Option / panic values
\* ------------------------------------------------------------------------

None == [tag |-> "None"]
Some(v) == [tag |-> "Some", val |-> v]
Panic == [tag |-> "Panic"]
IsPanic(o) == o.tag = "Panic"
IsSome(o) == o.tag = "Some"

Min(a, b) == IF a < b THEN a ELSE b
Max(a, b) == IF a > b THEN a ELSE b

\* usize::checked_mul
checked_mul(a, b) == IF a * b > UsizeMax THEN None ELSE Some(a * b)

\* the wrapping product a release build computes for a plain `*`
wrapping_mul(a, b) == (a * b) % (UsizeMax + 1)

\* (width as usize).checked_mul(height as usize).and_then(|n| n.checked_mul(4))
byte_size(width, height) ==
    LET n == checked_mul(width, height)
    IN  IF IsSome(n) THEN checked_mul(n.val, 4) ELSE None

Zeros(n) == [i \in 1..n |-> 0]

RgbaImage(data, width, height) == [data |-> data, width |-> width, height |-> height]

\* RgbaImage::new: panics ("Image dimensions too large") when the size overflows.
RgbaImage_new(width, height) ==
    LET size == byte_size(width, height)
    IN  IF IsSome(size) THEN Some(RgbaImage(Zeros(size.val), width, height))
        ELSE Panic

from_raw_wrapping(width, height, data) ==
    IF Len(data) = wrapping_mul(wrapping_mul(width, height), 4)
    THEN Some(RgbaImage(data, width, height))
    ELSE None

\* RgbaImage::from_raw
from_raw(width, height, data) ==
    LET expected == byte_size(width, height)
    IN  IF ~IsSome(expected) THEN None
        ELSE IF Len(data) = expected.val THEN Some(RgbaImage(data, width, height))
        ELSE None

\* ------------------------------------------------------------------------
\* Drawn inputs
\* ------------------------------------------------------------------------

\* a byte vector of n bytes, all different from their neighbours
Bytes(n, fill) == [i \in 1..n |-> (fill * 64 + i - 1) % 256]

\* a well-formed w x h image whose pixels are pairwise different
TestImage(w, h, fill) == RgbaImage(Bytes(w * h * 4, fill), w, h)

\* ------------------------------------------------------------------------
\* EXIF orientation transforms
\* ------------------------------------------------------------------------

\* the output buffer of a transform while its loops run; ok = FALSE once a
\* slice index was out of range (the program panics there)
Buf(data) == [ok |-> TRUE, data |-> data]
BufPanic == [ok |-> FALSE, data |-> <<>>]

\* out.data[dst..dst + n].copy_from_slice(&img.data[src..src + n])
copy_from_slice(o, dst, ind, src, n) ==
    IF ~o.ok THEN o
    ELSE IF dst + n > Len(o.data) \/ src + n > Len(ind) THEN BufPanic
    ELSE Buf([i \in 1..Len(o.data) |->
                IF i > dst /\ i <= dst + n THEN ind[src + (i - dst)] ELSE o.data[i]])

\* the image a transform returns: the buffer with the new dimensions
Finish(o, width, height) == IF o.ok THEN Some(RgbaImage(o.data, width, height)) ELSE Panic

RECURSIVE rotate_90_loop(_, _, _)
rotate_90_loop(img, o, k) ==
    LET w == img.width
        h == img.height
    IN  IF k >= w * h THEN o
        ELSE LET y == k \div w
                 x == k % w
                 src == (y * w + x) * 4
                 dst_x == h - 1 - y
                 dst_y == x
                 dst == (dst_y * h + dst_x) * 4
             IN  rotate_90_loop(img, copy_from_slice(o, dst, img.data, src, 4), k + 1)

rotate_90(img) ==
    LET new == RgbaImage_new(img.height, img.width)
    IN  IF ~IsSome(new) THEN Panic
        ELSE Finish(rotate_90_loop(img, Buf(new.val.data), 0), img.height, img.width)

RECURSIVE rotate_180_columns_loop(_, _, _)
rotate_180_columns_loop(img, o, k) ==
    LET w == img.width
        h == img.height
    IN  IF k >= w * h THEN o
        ELSE LET y == k \div w
                 x == k % w
                 src == (y * w + x) * 4
                 dst == (y * w + (w - 1 - x)) * 4
             IN  rotate_180_columns_loop(img, copy_from_slice(o, dst, img.data, src, 4), k + 1)

\* rotate_180 with the row reversal forgotten
rotate_180_columns_only(img) ==
    LET new == RgbaImage_new(img.width, img.height)
    IN  IF ~IsSome(new) THEN Panic
        ELSE Finish(rotate_180_columns_loop(img, Buf(new.val.data), 0), img.width, img.height)

RECURSIVE rotate_180_loop(_, _, _)
rotate_180_loop(img, o, k) ==
    LET w == img.width
        h == img.height
    IN  IF k >= w * h THEN o
        ELSE LET y == k \div w
                 x == k % w
                 src == (y * w + x) * 4
                 dst == ((h - 1 - y) * w + (w - 1 - x)) * 4
             IN  rotate_180_loop(img, copy_from_slice(o, dst, img.data, src, 4), k + 1)

rotate_180(img) ==
    LET new == RgbaImage_new(img.width, img.height)
    IN  IF ~IsSome(new) THEN Panic
        ELSE Finish(rotate_180_loop(img, Buf(new.val.data), 0), img.width, img.height)

\* rotate_270 turning the wrong way (the body of rotate_90)
rotate_270_clockwise(img) == rotate_90(img)

RECURSIVE rotate_270_loop(_, _, _)
rotate_270_loop(img, o, k) ==
    LET w == img.width
        h == img.height
    IN  IF k >= w * h THEN o
        ELSE LET y == k \div w
                 x == k % w
                 src == (y * w + x) * 4
                 dst_x == y
                 dst_y == w - 1 - x
                 dst == (dst_y * h + dst_x) * 4
             IN  rotate_270_loop(img, copy_from_slice(o, dst, img.data, src, 4), k + 1)

rotate_270(img) ==
    LET new == RgbaImage_new(img.height, img.width)
    IN  IF ~IsSome(new) THEN Panic
        ELSE Finish(rotate_270_loop(img, Buf(new.val.data), 0), img.height, img.width)

RECURSIVE flip_h_loop(_, _, _)
flip_h_loop(img, o, k) ==
    LET w == img.width
        h == img.height
    IN  IF k >= w * h THEN o
        ELSE LET y == k \div w
                 x == k % w
                 src == (y * w + x) * 4
                 dst == (y * w + (w - 1 - x)) * 4
             IN  flip_h_loop(img, copy_from_slice(o, dst, img.data, src, 4), k + 1)

flip_h(img) ==
    LET new == RgbaImage_new(img.width, img.height)
    IN  IF ~IsSome(new) THEN Panic
        ELSE Finish(flip_h_loop(img, Buf(new.val.data), 0), img.width, img.height)

RECURSIVE flip_v_loop(_, _, _)
flip_v_loop(img, o, y) ==
    LET w == img.width
        h == img.height
    IN  IF y >= h THEN o
        ELSE LET src_row == y * w * 4
                 dst_row == (h - 1 - y) * w * 4
                 row_bytes == w * 4
             IN  flip_v_loop(img, copy_from_slice(o, dst_row, img.data, src_row, row_bytes), y + 1)

flip_v(img) ==
    LET new == RgbaImage_new(img.width, img.height)
    IN  IF ~IsSome(new) THEN Panic
        ELSE Finish(flip_v_loop(img, Buf(new.val.data), 0), img.width, img.height)

\* flip_h of a transform's result; a panic of the inner transform stays a panic
flip_h_of(r) == IF IsSome(r) THEN flip_h(r.val) ELSE r

\* rotate_270 of a transform's result
rotate_270_of(r) == IF IsSome(r) THEN rotate_270(r.val) ELSE r

apply_orientation(img, orientation) ==
    CASE orientation = 2 -> flip_h(img)
      [] orientation = 3 -> rotate_180(img)
      [] orientation = 4 -> flip_v(img)
      [] orientation = 5 -> flip_h_of(rotate_90(img))
      [] orientation = 6 -> rotate_90(img)
      [] orientation = 7 -> flip_h_of(rotate_270(img))
      [] orientation = 8 -> rotate_270(img)
      [] OTHER -> Some(img)

\* the pixel at (x, y): its four bytes
pixel_at(img, x, y) ==
    LET off == (y * img.width + x) * 4
    IN  <<img.data[off + 1], img.data[off + 2], img.data[off + 3], img.data[off + 4]>>


\* ------------------------------------------------------------------------
\* Spec: the pixel buffer and the orientation transforms
\* ------------------------------------------------------------------------

\* the inputs Init draws: one call of one function each
FromRawInputs ==
    { [kind |-> "from_raw", width |-> width, height |-> height, data |-> Bytes(n, fill)] :
        width \in 0..MaxDim, height \in 0..MaxDim, n \in 0..MaxData, fill \in 0..(NumFills - 1) }

NewInputs ==
    { [kind |-> "new", width |-> width, height |-> height] :
        width \in 0..MaxDim, height \in 0..MaxDim }

TestImages ==
    { TestImage(w, h, fill) : w \in 0..MaxSide, h \in 0..MaxSide, fill \in 0..(NumFills - 1) }

OrientationInputs ==
    { [kind |-> k, img |-> img, orientation |-> o] :
        k \in {"apply_orientation", "apply_orientation_twice"}, img \in TestImages, o \in 0..10 }

RotateInputs == { [kind |-> "rotate_90_then_270", img |-> img] : img \in TestImages }

PureIdle ==
    /\ op = "init"
    /\ inp = [kind |-> "none"]
    /\ out = None

DecIdle ==
    /\ file = [ext |-> "none"]
    /\ fmt = "none"
    /\ pc = 0
    /\ bytes_read = 0
    /\ dims = <<0, 0>>
    /\ log = <<>>
    /\ idx = 0
    /\ frames = 0
    /\ result = "none"

Init ==
    /\ op = "init"
    /\ inp \in FromRawInputs \cup NewInputs \cup OrientationInputs \cup RotateInputs
    /\ out = None
    /\ DecIdle

\* RgbaImage::from_raw(width, height, data)
FromRaw ==
    /\ op = "init"
    /\ inp.kind = "from_raw"
    /\ op' = "from_raw"
    /\ out' = from_raw(inp.width, inp.height, inp.data)
    /\ UNCHANGED <<inp, decVars>>

\* RgbaImage::new(width, height)
New ==
    /\ op = "init"
    /\ inp.kind = "new"
    /\ op' = "new"
    /\ out' = RgbaImage_new(inp.width, inp.height)
    /\ UNCHANGED <<inp, decVars>>

\* apply_orientation(img, orientation)
ApplyOrientation ==
    /\ op = "init"
    /\ inp.kind = "apply_orientation"
    /\ op' = "apply_orientation"
    /\ out' = apply_orientation(inp.img, inp.orientation)
    /\ UNCHANGED <<inp, decVars>>

\* apply_orientation(apply_orientation(img, orientation), orientation)
ApplyOrientationTwice ==
    /\ op = "init"
    /\ inp.kind = "apply_orientation_twice"
    /\ op' = "apply_orientation_twice"
    /\ out' = LET once == apply_orientation(inp.img, inp.orientation)
              IN  IF IsSome(once) THEN apply_orientation(once.val, inp.orientation) ELSE once
    /\ UNCHANGED <<inp, decVars>>

\* rotate_270(rotate_90(img))
Rotate90Then270 ==
    /\ op = "init"
    /\ inp.kind = "rotate_90_then_270"
    /\ op' = "rotate_90_then_270"
    /\ out' = rotate_270_of(rotate_90(inp.img))
    /\ UNCHANGED <<inp, decVars>>

Next ==
    \/ FromRaw
    \/ New
    \/ ApplyOrientation
    \/ ApplyOrientationTwice
    \/ Rotate90Then270

Spec == Init /\ [][Next]_vars

\* ------------------------------------------------------------------------
\* Claims about the pixel buffer
\* ------------------------------------------------------------------------

\* C1: from_raw returns an image exactly when data.len() = width*height*4, and
\* then the image holds the given data, width and height; for every other
\* length, and when width*height*4 overflows, it returns None (no panic, no
\* truncated or padded buffer).
C1_FromRawExact ==
    op = "from_raw" =>
        IF Len(inp.data) = inp.width * inp.height * 4 /\ inp.width * inp.height * 4 <= UsizeMax
        THEN out = Some(RgbaImage(inp.data, inp.width, inp.height))
        ELSE out = None

\* from_raw has accepted a non-empty buffer, and has refused an overflowing size
C1_Witness ==
    /\ op = "from_raw"
    /\ IsSome(out)
    /\ Len(out.val.data) = 24

\* C2: no pixel buffer with a zero width or height, or with more than
\* MAX_PIXEL_COUNT pixels, comes out of RgbaImage::new or RgbaImage::from_raw.
C2_NoInvalidBuffer ==
    (op \in {"from_raw", "new"} /\ IsSome(out)) =>
        /\ out.val.width # 0
        /\ out.val.height # 0
        /\ out.val.width * out.val.height <= MAX_PIXEL_COUNT

\* C9: apply_orientation moves source pixel (x, y) of a w x h image to the
\* place the EXIF orientation prescribes; the result is w x h for 2..4 and
\* h x w for 5..8, with width*height*4 bytes; for 1 and for every value outside
\* 1..8 the image is returned unchanged.
C9_Target(o, w, h, x, y) ==
    CASE o = 2 -> <<w - 1 - x, y>>
      [] o = 3 -> <<w - 1 - x, h - 1 - y>>
      [] o = 4 -> <<x, h - 1 - y>>
      [] o = 5 -> <<y, x>>
      [] o = 6 -> <<h - 1 - y, x>>
      [] o = 7 -> <<h - 1 - y, w - 1 - x>>
      [] o = 8 -> <<y, w - 1 - x>>

C9_OrientationMapping ==
    op = "apply_orientation" =>
        LET img == inp.img
            o == inp.orientation
            w == img.width
            h == img.height
        IN  IF o \in 2..8
            THEN /\ IsSome(out)
                 /\ out.val.width = (IF o \in 2..4 THEN w ELSE h)
                 /\ out.val.height = (IF o \in 2..4 THEN h ELSE w)
                 /\ Len(out.val.data) = out.val.width * out.val.height * 4
                 /\ \A x \in 0..(w - 1), y \in 0..(h - 1) :
                        LET t == C9_Target(o, w, h, x, y)
                        IN  pixel_at(out.val, t[1], t[2]) = pixel_at(img, x, y)
            ELSE out = Some(img)

\* a 2 x 3 image has been transposed by orientation 5
C9_Witness ==
    /\ op = "apply_orientation"
    /\ inp.orientation = 5
    /\ inp.img.width = 2
    /\ inp.img.height = 3
    /\ IsSome(out)
    /\ out.val.width = 3

\* C10: orientation 2 applied twice and orientation 3 applied twice give back
\* the original buffer, and rotate_270(rotate_90(img)) gives back the original
\* dimensions and pixels.
C10_SelfInverse ==
    /\ (op = "apply_orientation_twice" /\ inp.orientation \in {2, 3}) => out = Some(inp.img)
    /\ op = "rotate_90_then_270" => out = Some(inp.img)

\* a 2 x 3 image went through rotate_90 and rotate_270
C10_Witness ==
    /\ op = "rotate_90_then_270"
    /\ inp.img.width = 2
    /\ inp.img.height = 3
    /\ IsSome(out)

\* ------------------------------------------------------------------------
\* DecodeSpec: load_image and load_image_thumbnail, one step per call or check
\* ------------------------------------------------------------------------

MaxFrames == 3

max_svg_dim == 16384

\* validate_dimensions(width, height, format): TRUE for Ok(())
validate_dimensions(width, height) ==
    IF width * height > MAX_PIXEL_COUNT THEN FALSE
    ELSE IF width = 0 \/ height = 0 THEN FALSE
    ELSE TRUE

\* load_svg: the intrinsic size, its 1024 x 1024 fallback and the clamp to
\* max_svg_dim per side (w *= scale; h *= scale; ceil)
CeilDiv(a, b) == (a + b - 1) \div b

svg_size(d) ==
    LET w == IF d[1] <= 0 \/ d[2] <= 0 THEN 1024 ELSE d[1]
        h == IF d[1] <= 0 \/ d[2] <= 0 THEN 1024 ELSE d[2]
        m == Max(w, h)
    IN  IF w > max_svg_dim \/ h > max_svg_dim
        THEN <<CeilDiv(w * max_svg_dim, m), CeilDiv(h * max_svg_dim, m)>>
        ELSE <<w, h>>

\* the files Init draws
Extensions ==
    {"jpg", "jpeg", "png", "webp", "gif", "bmp", "tiff", "tif", "svg", "avif", "heic", "heif",
     "jxl", "txt"}

FileSizes == {4096, MAX_FILE_SIZE, MAX_FILE_SIZE + 1}

DeclaredDims == {<<0, 3>>, <<2, 0>>, <<2, 3>>, <<16384, 16384>>, <<16385, 16384>>}

Files ==
    [entry : {"load_image", "load_image_thumbnail"},
     ext : Extensions,
     size : FileSizes,
     dims : DeclaredDims,
     animated : BOOLEAN,
     count : 0..MaxFrames]

\* one step of a decoder: the call made and what kind of step it is
\*   "read_file_limited"  the bounded reader
\*   "open"    a library opens and reads the path itself
\*   "call"    a library call or check that can fail and hands out no pixel storage
\*   "decode"  a library call that can fail and allocates pixel storage
\*   "check"   the check of the dimensions
\*   "size"    load_svg's sizing
\*   "alloc"   the decoder allocates pixel storage
\*   "frames"  the frame loop
\*   "events"  load_jxl's JxlDecoderProcessInput loop
\*   "finish"  the choice between Static, Animated and Err after the loop
\*   "return"  Ok(call)
S(call, kind) == [call |-> call, kind |-> kind]

load_jpeg ==
    << S("read_file_limited", "read_file_limited"),
       S("turbojpeg::decompress", "decode"),
       S("validate_dimensions", "check"),
       S("RgbaImage::from_raw", "call"),
       S("Static", "return") >>

load_jpeg_thumbnail ==
    << S("read_file_limited", "read_file_limited"),
       S("Decompressor::new", "call"),
       S("Decompressor::read_header", "call"),
       S("vec![0u8; h * pitch]", "alloc"),
       S("Decompressor::decompress", "call"),
       S("RgbaImage::from_raw", "call"),
       S("Thumbnail", "return") >>

load_png ==
    << S("read_file_limited", "read_file_limited"),
       S("PNG signature", "call"),
       S("png_create_read_struct", "call"),
       S("png_create_info_struct", "call"),
       S("png_read_info", "call"),
       S("PNG dimensions", "check"),
       S("vec![0u8; stride * height]", "alloc"),
       S("png_read_image", "call"),
       S("RgbaImage::from_raw", "call"),
       S("Static", "return") >>

load_webp ==
    << S("read_file_limited", "read_file_limited"),
       S("WebPGetFeatures", "call"),
       S("WebPDecodeRGBA", "decode"),
       S("validate_dimensions", "check"),
       S("to_vec", "alloc"),
       S("RgbaImage::from_raw", "call"),
       S("Static", "return") >>

load_webp_animated ==
    << S("read_file_limited", "read_file_limited"),
       S("WebPGetFeatures", "call"),
       S("WebPAnimDecoderOptionsInit", "call"),
       S("WebPAnimDecoderNew", "call"),
       S("WebPAnimDecoderGetInfo", "call"),
       S("validate_dimensions", "check"),
       S("while WebPAnimDecoderHasMoreFrames", "frames"),
       S("frames.len()", "finish") >>

load_gif ==
    << S("DGifOpenFileName", "open"),
       S("DGifSlurp", "decode"),
       S("GIF dimensions", "check"),
       S("vec![0u8; canvas_size]", "alloc"),
       S("for i in 0..image_count", "frames"),
       S("frames.len()", "finish") >>

load_bmp ==
    << S("read_file_limited", "read_file_limited"),
       S("BMP header", "call"),
       S("validate_dimensions", "check"),
       S("vec![0u8; pixel_count]", "alloc"),
       S("BMP pixel data", "call"),
       S("RgbaImage::from_raw", "call"),
       S("Static", "return") >>

load_tiff ==
    << S("TIFFOpen", "open"),
       S("TIFFGetField", "call"),
       S("TIFF dimensions", "check"),
       S("vec![0u32; npixels]", "alloc"),
       S("TIFFReadRGBAImageOriented", "call"),
       S("RgbaImage::from_raw", "call"),
       S("Static", "return") >>

load_svg ==
    << S("rsvg_handle_new_from_file", "open"),
       S("rsvg_handle_get_intrinsic_size_in_pixels", "size"),
       S("SVG pixel count", "check"),
       S("cairo_image_surface_create", "decode"),
       S("cairo_create", "call"),
       S("rsvg_handle_render_document", "call"),
       S("RgbaImage::from_raw", "call"),
       S("Static", "return") >>

load_avif ==
    << S("read_file_limited", "read_file_limited"),
       S("avifDecoderCreate", "call"),
       S("avifDecoderSetIOMemory", "call"),
       S("avifDecoderParse", "call"),
       S("avifDecoderNextImage", "call"),
       S("avifRGBImageAllocatePixels", "decode"),
       S("avifImageYUVToRGB", "call"),
       S("validate_dimensions", "check"),
       S("vec![0u8; pixel_count]", "alloc"),
       S("RgbaImage::from_raw", "call"),
       S("Static", "return") >>

load_avif_animated ==
    << S("read_file_limited", "read_file_limited"),
       S("avifDecoderCreate", "call"),
       S("avifDecoderSetIOMemory", "call"),
       S("avifDecoderParse", "call"),
       S("for i in 0..image_count", "frames"),
       S("Animated", "finish") >>

load_heic ==
    << S("read_file_limited", "read_file_limited"),
       S("heif_context_alloc", "call"),
       S("heif_context_read_from_memory_without_copy", "call"),
       S("heif_context_get_primary_image_handle", "call"),
       S("validate_dimensions", "check"),
       S("heif_decode_image", "decode"),
       S("heif_image_get_plane_readonly", "call"),
       S("vec![0u8; pixel_count]", "alloc"),
       S("RgbaImage::from_raw", "call"),
       S("Static", "return") >>

load_jxl ==
    << S("read_file_limited", "read_file_limited"),
       S("JxlDecoderCreate", "call"),
       S("JxlDecoderSubscribeEvents", "call"),
       S("JxlDecoderSetInput", "call"),
       S("loop JxlDecoderProcessInput", "events"),
       S("is_animated && !frames.is_empty()", "finish") >>

\* load_image's and load_image_thumbnail's match on the extension; load_webp
\* and load_avif branch on what the codec reports about animation
Decoder(f) ==
    CASE f.ext \in {"jpg", "jpeg"} ->
            IF f.entry = "load_image_thumbnail" THEN "jpeg_thumbnail" ELSE "jpeg"
      [] f.ext = "png" -> "png"
      [] f.ext = "webp" -> IF f.animated THEN "webp_animated" ELSE "webp"
      [] f.ext = "gif" -> "gif"
      [] f.ext = "bmp" -> "bmp"
      [] f.ext \in {"tiff", "tif"} -> "tiff"
      [] f.ext = "svg" -> "svg"
      [] f.ext = "avif" -> IF f.count > 1 THEN "avif_animated" ELSE "avif"
      [] f.ext \in {"heic", "heif"} -> "heic"
      [] f.ext = "jxl" -> "jxl"
      [] OTHER -> "unsupported"

Program(d) ==
    CASE d = "jpeg" -> load_jpeg
      [] d = "jpeg_thumbnail" -> load_jpeg_thumbnail
      [] d = "png" -> load_png
      [] d = "webp" -> load_webp
      [] d = "webp_animated" -> load_webp_animated
      [] d = "gif" -> load_gif
      [] d = "bmp" -> load_bmp
      [] d = "tiff" -> load_tiff
      [] d = "svg" -> load_svg
      [] d = "avif" -> load_avif
      [] d = "avif_animated" -> load_avif_animated
      [] d = "heic" -> load_heic
      [] d = "jxl" -> load_jxl
      [] OTHER -> <<>>

\* the calls of one pass of a frame loop that pushes a frame
frame_steps(d) ==
    CASE d = "webp_animated" ->
            << S("WebPAnimDecoderGetNext", "call"),
               S("to_vec", "alloc"),
               S("RgbaImage::from_raw", "call") >>
      [] d = "gif" ->
            << S("composite", "call"),
               S("canvas.clone()", "alloc"),
               S("RgbaImage::from_raw", "call") >>
      [] d = "avif_animated" ->
            << S("avifDecoderNextImage", "call"),
               S("avifRGBImageAllocatePixels", "decode"),
               S("avifImageYUVToRGB", "call"),
               S("validate_dimensions", "check"),
               S("vec![0u8; pixel_count]", "alloc"),
               S("RgbaImage::from_raw", "call") >>
      [] OTHER -> <<>>

\* the dimension check each decoder makes
check_dimensions(step, f, d) ==
    CASE step.call = "GIF dimensions" ->
            /\ ~(f.count = 0 \/ d[1] = 0 \/ d[2] = 0)
            /\ ~(d[1] * d[2] > MAX_PIXEL_COUNT)
      [] step.call \in {"PNG dimensions", "TIFF dimensions"} ->
            ~(d[1] = 0 \/ d[2] = 0 \/ d[1] * d[2] > MAX_PIXEL_COUNT)
      [] step.call = "SVG pixel count" -> ~(d[1] * d[2] > MAX_PIXEL_COUNT)
      [] OTHER -> validate_dimensions(d[1], d[2])

\* the end of a frame loop: no frame is an error, one frame is a static image
finish_frames(d, f, n, basic_info) ==
    CASE d \in {"webp_animated", "gif"} ->
            IF n = 0 THEN "Err" ELSE IF n = 1 THEN "Static" ELSE "Animated"
      [] d = "avif_animated" -> "Animated"
      [] d = "jxl" -> IF (basic_info /\ f.animated) /\ n # 0 THEN "Animated" ELSE "Err"
      [] OTHER -> "Err"

calls_of(sq, call) == Cardinality({i \in 1..Len(sq) : sq[i].call = call})

Here == Program(fmt)[pc]
Running == result = "none" /\ pc \in 1..Len(Program(fmt))
At(kind) == Running /\ Here.kind = kind

\* JXL_DEC_BASIC_INFO has been handled, so info and is_animated are set
basic_info_seen == calls_of(log, "JXL_DEC_BASIC_INFO") > 0
\* JXL_DEC_FULL_IMAGE statuses handled so far
full_images == calls_of(log, "JXL_DEC_FULL_IMAGE")

DecodeInit ==
    /\ PureIdle
    /\ file \in Files
    /\ fmt = "none"
    /\ pc = 0
    /\ bytes_read = 0
    /\ dims = <<0, 0>>
    /\ log = <<>>
    /\ idx = 0
    /\ frames = 0
    /\ result = "none"

\* an early return with Err
Fail ==
    /\ result' = "Err"
    /\ pc' = 0

\* the step succeeded: go on to the next one
Advance ==
    /\ pc' = pc + 1
    /\ log' = Append(log, Here)
    /\ UNCHANGED result

\* load_image(path)
LoadImage ==
    /\ file.entry = "load_image"
    /\ fmt = "none"
    /\ result = "none"
    /\ fmt' = Decoder(file)
    /\ dims' = file.dims
    /\ IF Decoder(file) = "unsupported"
       THEN Fail
       ELSE pc' = 1 /\ UNCHANGED result
    /\ UNCHANGED <<pureVars, file, bytes_read, log, idx, frames>>

\* load_image_thumbnail(path, thumb_size): load_jpeg_thumbnail for a JPEG,
\* load_image for everything else
LoadImageThumbnail ==
    /\ file.entry = "load_image_thumbnail"
    /\ fmt = "none"
    /\ result = "none"
    /\ fmt' = Decoder(file)
    /\ dims' = file.dims
    /\ IF Decoder(file) = "unsupported"
       THEN Fail
       ELSE pc' = 1 /\ UNCHANGED result
    /\ UNCHANGED <<pureVars, file, bytes_read, log, idx, frames>>

\* load_image_thumbnail: generate_thumbnail(loaded.first_frame(), thumb_size)
GenerateThumbnail ==
    /\ file.entry = "load_image_thumbnail"
    /\ fmt # "jpeg_thumbnail"
    /\ result \in {"Static", "Animated"}
    /\ result' = "Thumbnail"
    /\ UNCHANGED <<pureVars, file, fmt, pc, bytes_read, dims, log, idx, frames>>

\* read_file_limited(path): stat, refuse more than MAX_FILE_SIZE bytes, read
ReadFileLimited ==
    /\ At("read_file_limited")
    /\ \/ /\ file.size > MAX_FILE_SIZE
          /\ Fail
          /\ log' = Append(log, Here)
          /\ UNCHANGED bytes_read
       \/ /\ ~(file.size > MAX_FILE_SIZE)
          /\ bytes_read' = file.size
          /\ Advance
       \/ /\ Fail
          /\ UNCHANGED <<bytes_read, log>>
    /\ UNCHANGED <<pureVars, file, fmt, dims, idx, frames>>

\* DGifOpenFileName, TIFFOpen, rsvg_handle_new_from_file: the library is
\* given the path and reads the file itself
LibraryOpen ==
    /\ At("open")
    /\ \/ /\ bytes_read' = file.size
          /\ Advance
       \/ /\ Fail
          /\ UNCHANGED <<bytes_read, log>>
    /\ UNCHANGED <<pureVars, file, fmt, dims, idx, frames>>

\* a library call or a check of the data, followed by its error return
LibraryCall ==
    /\ At("call") \/ At("decode")
    /\ \/ Advance
       \/ Fail /\ UNCHANGED log
    /\ UNCHANGED <<pureVars, file, fmt, bytes_read, dims, idx, frames>>

\* load_svg: intrinsic size, fallback and clamp
SvgSize ==
    /\ At("size")
    /\ dims' = svg_size(dims)
    /\ Advance
    /\ UNCHANGED <<pureVars, file, fmt, bytes_read, idx, frames>>

\* validate_dimensions, or the decoder's own test of width and height
CheckDimensions ==
    /\ At("check")
    /\ log' = Append(log, Here)
    /\ IF check_dimensions(Here, file, dims)
       THEN pc' = pc + 1 /\ UNCHANGED result
       ELSE Fail
    /\ UNCHANGED <<pureVars, file, fmt, bytes_read, dims, idx, frames>>

\* vec![0; n], to_vec: the decoder's own pixel storage
Allocate ==
    /\ At("alloc")
    /\ Advance
    /\ UNCHANGED <<pureVars, file, fmt, bytes_read, dims, idx, frames>>

\* Ok(LoadedImage::Static(img)), Ok(generate_thumbnail(..))
Return ==
    /\ At("return")
    /\ result' = Here.call
    /\ pc' = 0
    /\ UNCHANGED <<pureVars, file, fmt, bytes_read, dims, log, idx, frames>>

\* one pass of the frame loop of load_webp_animated, load_gif or the animated
\* branch of load_avif
DecodeFrame ==
    /\ At("frames")
    /\ idx < file.count
    /\ \/ \* the frame is decoded and pushed
          /\ fmt = "avif_animated" => validate_dimensions(dims[1], dims[2])
          /\ idx' = idx + 1
          /\ frames' = frames + 1
          /\ log' = log \o frame_steps(fmt)
          /\ UNCHANGED <<pc, result>>
       \/ \* load_gif: no colour map or no raster, continue
          /\ fmt = "gif"
          /\ idx' = idx + 1
          /\ UNCHANGED <<pc, result, frames, log>>
       \/ \* load_webp_animated: WebPAnimDecoderGetNext failed, break
          /\ fmt = "webp_animated"
          /\ pc' = pc + 1
          /\ log' = Append(log, S("WebPAnimDecoderGetNext", "call"))
          /\ UNCHANGED <<result, idx, frames>>
       \/ \* load_avif: avifDecoderNextImage failed, return Err
          /\ fmt = "avif_animated"
          /\ Fail
          /\ log' = Append(log, S("avifDecoderNextImage", "call"))
          /\ UNCHANGED <<idx, frames>>
       \/ \* load_avif: validate_dimensions refused the frame, return Err
          /\ fmt = "avif_animated"
          /\ ~validate_dimensions(dims[1], dims[2])
          /\ Fail
          /\ log' = log \o SubSeq(frame_steps(fmt), 1, 4)
          /\ UNCHANGED <<idx, frames>>
    /\ UNCHANGED <<pureVars, file, fmt, bytes_read, dims>>

\* the frame loop has gone through every frame of the file
EndFrameLoop ==
    /\ At("frames")
    /\ idx = file.count
    /\ pc' = pc + 1
    /\ UNCHANGED <<pureVars, file, fmt, bytes_read, dims, log, idx, frames, result>>

\* after the loop: Err, Ok(Static) or Ok(Animated { frames })
FinishFrames ==
    /\ At("finish")
    /\ result' = finish_frames(fmt, file, frames, basic_info_seen)
    /\ pc' = 0
    /\ UNCHANGED <<pureVars, file, fmt, bytes_read, dims, log, idx, frames>>

\* load_jxl: one JxlDecoderProcessInput and the match on its status. libjxl
\* reports JXL_DEC_BASIC_INFO once and first, and JXL_DEC_FULL_IMAGE only for
\* a frame it has announced with JXL_DEC_FRAME.
JxlStatuses ==
    {"JXL_DEC_BASIC_INFO", "JXL_DEC_FRAME", "JXL_DEC_FULL_IMAGE", "JXL_DEC_SUCCESS",
     "JXL_DEC_ERROR", "JXL_DEC_NEED_MORE_INPUT"}

JxlProcessInput ==
    /\ At("events")
    /\ \E status \in JxlStatuses :
        \/ /\ status = "JXL_DEC_BASIC_INFO"
           /\ ~basic_info_seen
           /\ log' = Append(log, S(status, "check"))
           /\ \/ /\ validate_dimensions(dims[1], dims[2])
                 /\ UNCHANGED <<pc, result>>
              \/ Fail
           /\ UNCHANGED <<idx, frames>>
        \/ /\ status = "JXL_DEC_FRAME"
           /\ basic_info_seen
           /\ idx < file.count
           /\ full_images = idx
           /\ \/ /\ log' = log \o <<S(status, "call"), S("vec![0u8; buf_size]", "alloc")>>
                 /\ idx' = idx + 1
                 /\ frames' = IF file.animated THEN frames + 1 ELSE frames
                 /\ UNCHANGED <<pc, result>>
              \/ /\ Fail
                 /\ UNCHANGED <<log, idx, frames>>
        \/ /\ status = "JXL_DEC_FULL_IMAGE"
           /\ full_images < idx
           /\ log' = Append(log, S(status, "call"))
           /\ IF file.animated
              THEN UNCHANGED <<pc, result>>
              ELSE result' = "Static" /\ pc' = 0
           /\ UNCHANGED <<idx, frames>>
        \/ /\ status \in {"JXL_DEC_SUCCESS", "JXL_DEC_NEED_MORE_INPUT"}
           /\ pc' = pc + 1
           /\ UNCHANGED <<log, idx, frames, result>>
        \/ /\ status = "JXL_DEC_ERROR"
           /\ Fail
           /\ UNCHANGED <<log, idx, frames>>
    /\ UNCHANGED <<pureVars, file, fmt, bytes_read, dims>>

DecodeNext ==
    \/ LoadImage
    \/ LoadImageThumbnail
    \/ GenerateThumbnail
    \/ ReadFileLimited
    \/ LibraryOpen
    \/ LibraryCall
    \/ SvgSize
    \/ CheckDimensions
    \/ Allocate
    \/ DecodeFrame
    \/ EndFrameLoop
    \/ FinishFrames
    \/ JxlProcessInput
    \/ Return

DecodeSpec == DecodeInit /\ [][DecodeNext]_vars

\* ------------------------------------------------------------------------
\* Claims about the decoders
\* ------------------------------------------------------------------------

IsAllocation(step) == step.kind \in {"decode", "alloc"}
Decoded == result \in {"Static", "Animated", "Thumbnail"}

\* C3: in every decode path, the JPEG thumbnail path included, a file whose
\* declared width*height is above MAX_PIXEL_COUNT or that has a zero dimension
\* is rejected with an error, and no pixel storage is allocated, by the
\* decoder or by the codec call it makes, before the dimensions are checked.
C3_ValidateBeforeAllocate ==
    /\ Decoded => validate_dimensions(file.dims[1], file.dims[2])
    /\ \A i \in 1..Len(log) :
          IsAllocation(log[i]) => \E j \in 1..(i - 1) : log[j].kind = "check"

\* C4: every decoder gets the file's bytes through read_file_limited: a file
\* of more than MAX_FILE_SIZE bytes is refused before any byte of it is read,
\* whatever its format.
C4_BoundedReadOnly ==
    /\ bytes_read > 0 => calls_of(log, "read_file_limited") > 0
    /\ file.size > MAX_FILE_SIZE => bytes_read = 0 /\ ~Decoded

\* C5: a decoder that returns LoadedImage::Animated returns at least two
\* frames; with exactly one frame it returns Static.
C5_AnimatedHasTwoFrames ==
    result = "Animated" => frames >= 2

\* ------------------------------------------------------------------------
\* ExifSpec: the metadata extractors and the TIFF walker, on byte sequences
\* ------------------------------------------------------------------------
\* A byte slice is a sequence over 0..255; offsets are 0-based as in the
\* source. usize is 64 bits wide: a u32 or u16 read from the data, added to a
\* position inside the data, never overflows it. Indexing and slicing outside
\* the slice is the outcome Panic.

\* d[i]
index(d, i) == IF i >= 0 /\ i < Len(d) THEN Some(d[i + 1]) ELSE Panic

\* &d[a..b]
slice(d, a, b) == IF a < 0 \/ a > b \/ b > Len(d) THEN Panic ELSE Some(SubSeq(d, a + 1, b))

\* &d[a..]
slice_from(d, a) == slice(d, a, Len(d))

\* u16::from_le_bytes([d[off], d[off + 1]]) and u16::from_be_bytes(..)
u16_at(d, le, off) ==
    IF off < 0 \/ off + 2 > Len(d) THEN Panic
    ELSE Some(IF le THEN d[off + 1] + 256 * d[off + 2]
                    ELSE 256 * d[off + 1] + d[off + 2])

\* A u32 of 2^27 or more is written Big: it is more than every length here,
\* and its product with a type size and its sum with a position are exact.
Big == 2^27

\* u32::from_le_bytes([d[off], .., d[off + 3]]) and u32::from_be_bytes(..)
u32_at(d, le, off) ==
    IF off < 0 \/ off + 4 > Len(d) THEN Panic
    ELSE LET top == IF le THEN d[off + 4] ELSE d[off + 1]
             low == IF le THEN d[off + 1] + 256 * d[off + 2] + 65536 * d[off + 3]
                          ELSE 65536 * d[off + 2] + 256 * d[off + 3] + d[off + 4]
         IN  Some(IF top >= 8 THEN Big ELSE 16777216 * top + low)

\* i32::from_le_bytes(..) and i32::from_be_bytes(..)
i32_at(d, le, off) ==
    IF off < 0 \/ off + 4 > Len(d) THEN Panic
    ELSE LET top == IF le THEN d[off + 4] ELSE d[off + 1]
             low == IF le THEN d[off + 1] + 256 * d[off + 2] + 65536 * d[off + 3]
                          ELSE 65536 * d[off + 2] + 256 * d[off + 3] + d[off + 4]
         IN  Some((IF top >= 128 THEN top - 256 ELSE top) * 16777216 + low)

\* a read that indexes without looking at the length
read_u16_unchecked(d, le, off) == u16_at(d, le, off)

\* the reading closures of the walker: None when the value does not fit
read_u16(d, le, off) == IF off + 2 > Len(d) THEN None ELSE u16_at(d, le, off)

read_u32(d, le, off) == IF off + 4 > Len(d) THEN None ELSE u32_at(d, le, off)

read_i32(d, le, off) == IF off + 4 > Len(d) THEN None ELSE i32_at(d, le, off)

\* match (d[0], d[1]): Some(TRUE) for "II", Some(FALSE) for "MM", else None
byte_order(d) ==
    LET b0 == index(d, 0)
        b1 == index(d, 1)
    IN  IF ~IsSome(b0) THEN b0
        ELSE IF ~IsSome(b1) THEN b1
        ELSE IF b0.val = 73 /\ b1.val = 73 THEN Some(TRUE)
        ELSE IF b0.val = 77 /\ b1.val = 77 THEN Some(FALSE)
        ELSE None

\* parse_tiff_orientation: for i in 0..entry_count
RECURSIVE orientation_entries(_, _, _, _, _)
orientation_entries(d, le, entries_start, i, entry_count) ==
    IF i >= entry_count THEN None
    ELSE LET entry_off == entries_start + i * 12
         IN  IF entry_off + 12 > Len(d) THEN None
             ELSE LET tag == read_u16(d, le, entry_off)
                  IN  IF ~IsSome(tag) THEN tag
                      ELSE IF tag.val = 274
                      THEN read_u16(d, le, entry_off + 8)
                      ELSE orientation_entries(d, le, entries_start, i + 1, entry_count)

\* parse_tiff_orientation(data, tiff_offset), after d = &data[tiff_offset..]
orientation_of(d) ==
    LET le == byte_order(d)
    IN  IF ~IsSome(le) THEN le
        ELSE LET magic == read_u16(d, le.val, 2)
             IN  IF ~IsSome(magic) THEN magic
                 ELSE IF magic.val # 42 THEN None
                 ELSE LET ifd_offset == read_u32(d, le.val, 4)
                      IN  IF ~IsSome(ifd_offset) THEN ifd_offset
                          ELSE IF ifd_offset.val + 2 > Len(d) THEN None
                          ELSE LET entry_count == read_u16(d, le.val, ifd_offset.val)
                               IN  IF ~IsSome(entry_count) THEN entry_count
                                   ELSE orientation_entries(d, le.val, ifd_offset.val + 2, 0,
                                                            entry_count.val)

parse_tiff_orientation(data, tiff_offset) ==
    IF tiff_offset + 8 > Len(data) THEN None
    ELSE LET d == slice_from(data, tiff_offset)
         IN  IF ~IsSome(d) THEN d ELSE orientation_of(d.val)

\* the byte strings the containers are searched for
Exif00 == <<69, 120, 105, 102, 0, 0>>
RIFF == <<82, 73, 70, 70>>
WEBP == <<87, 69, 66, 80>>
EXIF == <<69, 88, 73, 70>>
x89PNG == <<137, 80, 78, 71>>
eXIf == <<101, 88, 73, 102>>
meta == <<109, 101, 116, 97>>
Exif == <<69, 120, 105, 102>>
jxl_sig == <<0, 0, 0, 12, 74, 88, 76, 32, 13, 10, 135, 10>>

\* read_exif_orientation and read_exif_tags: the scan of the JPEG segments
\* for the APP1 segment that starts with "Exif\0\0". Some(tiff_start), or None
RECURSIVE jpeg_segments(_, _)
jpeg_segments(data, pos) ==
    IF ~(pos + 4 < Len(data)) THEN None
    ELSE LET ff == index(data, pos)
             marker == index(data, pos + 1)
             seg_len == u16_at(data, FALSE, pos + 2)
             seg_start == pos + 4
         IN  IF ~IsSome(ff) THEN ff
             ELSE IF ff.val # 255 THEN None
             ELSE IF ~IsSome(marker) THEN marker
             ELSE IF ~IsSome(seg_len) THEN seg_len
             ELSE IF marker.val = 225
             THEN IF seg_start + 6 > Len(data) THEN None
                  ELSE LET head == slice(data, seg_start, seg_start + 6)
                       IN  IF ~IsSome(head) THEN head
                           ELSE IF head.val # Exif00
                           THEN jpeg_segments(data, pos + 2 + seg_len.val)
                           ELSE Some(seg_start + 6)
             ELSE IF marker.val = 218 THEN None
             ELSE jpeg_segments(data, pos + 2 + seg_len.val)

jpeg_exif_start(data) ==
    IF Len(data) < 4 \/ data[1] # 255 \/ data[2] # 216 THEN None
    ELSE jpeg_segments(data, 2)

\* read_exif_orientation(data): the orientation of a JPEG file
read_exif_orientation(data) ==
    LET tiff_start == jpeg_exif_start(data)
    IN  IF ~IsSome(tiff_start) THEN tiff_start
        ELSE parse_tiff_orientation(data, tiff_start.val)

\* a WebP extractor that hands out the EXIF chunk as it is stored
RECURSIVE webp_chunks_keep_prefix(_, _)
webp_chunks_keep_prefix(data, pos) ==
    IF ~(pos + 8 <= Len(data)) THEN None
    ELSE LET fourcc == slice(data, pos, pos + 4)
             chunk_size == u32_at(data, TRUE, pos + 4)
         IN  IF ~IsSome(fourcc) THEN fourcc
             ELSE IF ~IsSome(chunk_size) THEN chunk_size
             ELSE IF fourcc.val = EXIF
             THEN IF pos + 8 + chunk_size.val > Len(data) THEN None
                  ELSE slice(data, pos + 8, pos + 8 + chunk_size.val)
             ELSE webp_chunks_keep_prefix(
                      data, pos + 8 + chunk_size.val + (chunk_size.val % 2))

\* extract_webp_exif: while pos + 8 <= data.len()
RECURSIVE webp_chunks(_, _)
webp_chunks(data, pos) ==
    IF ~(pos + 8 <= Len(data)) THEN None
    ELSE LET fourcc == slice(data, pos, pos + 4)
             chunk_size == u32_at(data, TRUE, pos + 4)
         IN  IF ~IsSome(fourcc) THEN fourcc
             ELSE IF ~IsSome(chunk_size) THEN chunk_size
             ELSE LET payload_start == pos + 8
                      payload_end == payload_start + chunk_size.val
                      \* (chunk_size + 1) & !1
                      padded_size == chunk_size.val + (chunk_size.val % 2)
                  IN  IF fourcc.val = EXIF
                      THEN IF payload_end > Len(data) THEN None
                           ELSE LET payload == slice(data, payload_start, payload_end)
                                IN  IF ~IsSome(payload) THEN payload
                                    ELSE IF Len(payload.val) >= 6
                                            /\ SubSeq(payload.val, 1, 6) = Exif00
                                    THEN slice_from(payload.val, 6)
                                    ELSE payload
                      ELSE webp_chunks(data, payload_start + padded_size)

\* extract_webp_exif(data)
extract_webp_exif(data) ==
    IF Len(data) < 12 THEN None
    ELSE IF SubSeq(data, 1, 4) # RIFF \/ SubSeq(data, 9, 12) # WEBP THEN None
    ELSE webp_chunks(data, 12)

\* extract_png_exif: while pos + 12 <= data.len()
RECURSIVE png_chunks(_, _)
png_chunks(data, pos) ==
    IF ~(pos + 12 <= Len(data)) THEN None
    ELSE LET chunk_len == u32_at(data, FALSE, pos)
             chunk_type == slice(data, pos + 4, pos + 8)
         IN  IF ~IsSome(chunk_len) THEN chunk_len
             ELSE IF ~IsSome(chunk_type) THEN chunk_type
             ELSE LET payload_start == pos + 8
                      payload_end == payload_start + chunk_len.val
                  IN  IF chunk_type.val = eXIf
                      THEN IF payload_end > Len(data) THEN None
                           ELSE slice(data, payload_start, payload_end)
                      ELSE png_chunks(data, payload_end + 4)

\* extract_png_exif(data)
extract_png_exif(data) ==
    IF Len(data) < 8 \/ SubSeq(data, 1, 4) # x89PNG THEN None
    ELSE png_chunks(data, 8)

\* read_exif_orientation_png, read_exif_orientation_webp, read_exif_orientation_tiff
read_exif_orientation_png(data) ==
    LET exif_data == extract_png_exif(data)
    IN  IF ~IsSome(exif_data) THEN exif_data ELSE parse_tiff_orientation(exif_data.val, 0)

read_exif_orientation_webp(data) ==
    LET exif_data == extract_webp_exif(data)
    IN  IF ~IsSome(exif_data) THEN exif_data ELSE parse_tiff_orientation(exif_data.val, 0)

read_exif_orientation_tiff(data) == parse_tiff_orientation(data, 0)

\* a walk of the boxes that comes back to a position it has left never ends
Diverges == [tag |-> "Diverges"]

\* A box size of the ISOBMFF walkers is a usize that a file can set to any
\* 64-bit value. A size of 2^64 - k, k at most 2^31, is written -k; every
\* other size of 2^31 or more is written Far: it is more than every length
\* and its sum with a position does not overflow.
Far == -(2^30)

\* u64::from_be_bytes([d[off], .., d[off + 7]]) as usize
be_u64_at(d, off) ==
    IF off < 0 \/ off + 8 > Len(d) THEN Panic
    ELSE LET high == SubSeq(d, off + 1, off + 4)
             low == 65536 * d[off + 6] + 256 * d[off + 7] + d[off + 8]
         IN  IF high = <<0, 0, 0, 0>> /\ d[off + 5] < 128
             THEN Some(16777216 * d[off + 5] + low)
             ELSE IF high = <<255, 255, 255, 255>> /\ d[off + 5] >= 128
             THEN Some(16777216 * (d[off + 5] - 256) + low)
             ELSE Some(Far)

\* pos + actual_size, pos += actual_size: with overflow checks (the debug
\* profile) an overflowing sum panics, without them (release) it wraps
BuildProfiles == {"debug", "release"}

add_usize(pos, size, build) ==
    IF size < 0 /\ pos + size >= 0
    THEN IF build = "debug" THEN Panic ELSE Some(pos + size)
    ELSE Some(pos + size)

\* a > b on usize
gt_usize(a, b) == a < 0 \/ a > b
\* a < b on usize, b small
lt_usize(a, b) == a >= 0 /\ a < b

\* find_exif_in_meta: for i in 0..data.len().saturating_sub(10)
RECURSIVE meta_scan(_, _)
meta_scan(data, i) ==
    IF i >= Max(Len(data) - 10, 0) THEN None
    ELSE LET b == slice_from(data, i)
         IN  IF ~IsSome(b) THEN b
             ELSE IF Len(b.val) < 10 THEN None
             ELSE LET has_tiff ==
                          \/ SubSeq(b.val, 5, 8) = <<73, 73, 42, 0>>
                          \/ SubSeq(b.val, 5, 8) = <<77, 77, 0, 42>>
                  IN  IF has_tiff THEN slice_from(data, i + 4)
                      ELSE meta_scan(data, i + 1)

find_exif_in_meta(data) == meta_scan(data, 0)

\* the extended size of a box, or None where the loop breaks on it
extended_size(data, pos) ==
    IF pos + 16 > Len(data) THEN None ELSE be_u64_at(data, pos + 8)

\* extract_avif_exif: while pos + 8 <= data.len()
RECURSIVE avif_boxes(_, _, _, _)
avif_boxes(data, build, pos, seen) ==
    IF pos \in seen THEN Diverges
    ELSE IF ~(pos + 8 <= Len(data)) THEN None
    ELSE LET box_size == u32_at(data, FALSE, pos)
             box_type == slice(data, pos + 4, pos + 8)
         IN  IF ~IsSome(box_size) THEN box_size
             ELSE IF pos + 4 + 4 > Len(data) THEN None
             ELSE IF ~IsSome(box_type) THEN box_type
             ELSE LET actual_size == IF box_size.val = 0 THEN Some(Len(data) - pos)
                                     ELSE IF box_size.val = 1 THEN extended_size(data, pos)
                                     ELSE box_size
                  IN  IF ~IsSome(actual_size) THEN actual_size
                      ELSE IF lt_usize(actual_size.val, 8) THEN None
                      ELSE LET end == add_usize(pos, actual_size.val, build)
                           IN  IF ~IsSome(end) THEN end
                               ELSE IF gt_usize(end.val, Len(data)) THEN None
                               ELSE LET inner == IF box_type.val = meta
                                                 THEN slice(data, pos + 12, end.val)
                                                 ELSE None
                                        found == IF IsSome(inner)
                                                 THEN find_exif_in_meta(inner.val)
                                                 ELSE inner
                                    IN  IF found.tag # "None" THEN found
                                        ELSE avif_boxes(data, build, end.val, seen \cup {pos})

\* extract_avif_exif(data)
extract_avif_exif(data, build) == avif_boxes(data, build, 0, {})

\* extract_jxl_exif: while pos + 8 <= data.len()
RECURSIVE jxl_boxes(_, _, _, _)
jxl_boxes(data, build, pos, seen) ==
    IF pos \in seen THEN Diverges
    ELSE IF ~(pos + 8 <= Len(data)) THEN None
    ELSE LET box_size == u32_at(data, FALSE, pos)
             box_type == slice(data, pos + 4, pos + 8)
         IN  IF ~IsSome(box_size) THEN box_size
             ELSE IF ~IsSome(box_type) THEN box_type
             ELSE LET header_size == IF box_size.val = 1 THEN 16 ELSE 8
                      actual_size == IF box_size.val = 0 THEN Some(Len(data) - pos)
                                     ELSE IF box_size.val = 1 THEN extended_size(data, pos)
                                     ELSE box_size
                  IN  IF ~IsSome(actual_size) THEN actual_size
                      ELSE IF lt_usize(actual_size.val, header_size) THEN None
                      ELSE LET end == add_usize(pos, actual_size.val, build)
                           IN  IF ~IsSome(end) THEN end
                               ELSE IF gt_usize(end.val, Len(data)) THEN None
                               ELSE IF box_type.val = Exif
                               THEN LET payload == slice(data, pos + header_size, end.val)
                                    IN  IF ~IsSome(payload) THEN payload
                                        ELSE IF Len(payload.val) < 8 THEN None
                                        ELSE LET tiff_offset == u32_at(payload.val, FALSE, 0)
                                                 tiff_start == 4 + tiff_offset.val
                                             IN  IF tiff_start >= Len(payload.val) THEN None
                                                 ELSE slice_from(payload.val, tiff_start)
                               ELSE jxl_boxes(data, build, end.val, seen \cup {pos})

\* extract_jxl_exif(data)
extract_jxl_exif(data, build) ==
    IF Len(data) < 12 THEN None
    ELSE IF SubSeq(data, 1, 12) # jxl_sig THEN None
    ELSE jxl_boxes(data, build, 0, {})

\* IFD0_TAGS, EXIF_TAGS: the tags the walker reports, by number
IFD0_TAGS == {271, 272, 274, 282, 283, 305, 306, 315, 33432}
EXIF_TAGS ==
    {33434, 33437, 34855, 36867, 36868, 37380, 37383, 37385, 37386, 40961, 40962, 40963,
     41986, 41987, 42036}

\* TYPE_SIZES[dtype], dtype < TYPE_SIZES.len()
TYPE_SIZES == <<0, 1, 1, 2, 4, 8, 1, 1, 2, 4, 8>>

\* the text of a value: an ASCII string is its characters, a formatted
\* number is the tag and the numbers the text is made from
ascii_text(chars) == [fmt |-> "ascii", chars |-> chars]
is_empty(v) == v.fmt = "ascii" /\ v.chars = <<>>

\* bytes.iter().position(|&b| b == 0).unwrap_or(bytes.len())
RECURSIVE position_of_nul(_, _)
position_of_nul(bytes, i) ==
    IF i >= Len(bytes) THEN Len(bytes)
    ELSE IF bytes[i + 1] = 0 THEN i
    ELSE position_of_nul(bytes, i + 1)

\* printable ASCII is kept, every other byte becomes '?'
printable(bytes) == [i \in 1..Len(bytes) |-> IF bytes[i] >= 32 /\ bytes[i] <= 126 THEN bytes[i] ELSE 63]

\* read_tag_value(d, value_off, dtype, count, le, tag)
read_tag_value(d, value_off, dtype, count, le, tag) ==
    IF ~(dtype < Len(TYPE_SIZES)) THEN None
    ELSE LET type_size == TYPE_SIZES[dtype + 1]
             total_bytes == type_size * count
             data_off == IF total_bytes <= 4 THEN Some(value_off)
                         ELSE read_u32(d, le, value_off)
         IN  IF ~IsSome(data_off) THEN data_off
             ELSE CASE dtype = 2 ->
                        IF data_off.val + count > Len(d) THEN None
                        ELSE LET bytes == slice(d, data_off.val, data_off.val + count)
                             IN  IF ~IsSome(bytes) THEN bytes
                                 ELSE Some(ascii_text(printable(
                                          SubSeq(bytes.val, 1, position_of_nul(bytes.val, 0)))))
                    [] dtype = 3 ->
                        LET val == read_u16(d, le, data_off.val)
                        IN  IF ~IsSome(val) THEN val
                            ELSE Some([fmt |-> "short", tag |-> tag, val |-> val.val])
                    [] dtype = 4 ->
                        LET val == read_u32(d, le, data_off.val)
                        IN  IF ~IsSome(val) THEN val
                            ELSE Some([fmt |-> "long", tag |-> tag, val |-> val.val])
                    [] dtype = 5 ->
                        LET num == read_u32(d, le, data_off.val)
                            den == read_u32(d, le, data_off.val + 4)
                        IN  IF ~IsSome(num) THEN num
                            ELSE IF ~IsSome(den) THEN den
                            ELSE Some([fmt |-> "rational", tag |-> tag,
                                       val |-> <<num.val, den.val>>])
                    [] dtype = 10 ->
                        LET num == read_i32(d, le, data_off.val)
                            den == read_i32(d, le, data_off.val + 4)
                        IN  IF ~IsSome(num) THEN num
                            ELSE IF ~IsSome(den) THEN den
                            ELSE Some([fmt |-> "srational", tag |-> tag,
                                       val |-> <<num.val, den.val>>])
                    [] OTHER -> None

\* what parse_ifd_tags has written through its three &mut arguments
IfdResult(tags, exif_ifd, gps_ifd) == [tags |-> tags, exif_ifd |-> exif_ifd, gps_ifd |-> gps_ifd]

\* parse_ifd_tags: for i in 0..entry_count
RECURSIVE ifd_entries(_, _, _, _, _, _, _)
ifd_entries(d, le, known_tags, entries_start, i, entry_count, acc) ==
    IF i >= entry_count THEN Some(acc)
    ELSE LET entry_off == entries_start + i * 12
             tag == read_u16(d, le, entry_off)
             dtype == read_u16(d, le, entry_off + 2)
             count == read_u32(d, le, entry_off + 4)
             offset == read_u32(d, le, entry_off + 8)
             continue(next) == ifd_entries(d, le, known_tags, entries_start, i + 1,
                                           entry_count, next)
         IN  IF entry_off + 12 > Len(d) THEN Some(acc)
             ELSE IF IsPanic(tag) \/ IsPanic(dtype) \/ IsPanic(count) THEN Panic
             ELSE IF ~IsSome(tag) \/ ~IsSome(dtype) \/ ~IsSome(count) THEN continue(acc)
             ELSE IF tag.val = 34665
             THEN IF IsPanic(offset) THEN Panic
                  ELSE IF IsSome(offset)
                  THEN continue(IfdResult(acc.tags, offset, acc.gps_ifd))
                  ELSE continue(acc)
             ELSE IF tag.val = 34853
             THEN IF IsPanic(offset) THEN Panic
                  ELSE IF IsSome(offset)
                  THEN continue(IfdResult(acc.tags, acc.exif_ifd, offset))
                  ELSE continue(acc)
             ELSE IF tag.val \notin known_tags THEN continue(acc)
             ELSE LET value == read_tag_value(d, entry_off + 8, dtype.val, count.val, le,
                                              tag.val)
                  IN  IF IsPanic(value) THEN Panic
                      ELSE IF IsSome(value) /\ ~is_empty(value.val)
                      THEN continue(IfdResult(Append(acc.tags, <<tag.val, value.val>>),
                                              acc.exif_ifd, acc.gps_ifd))
                      ELSE continue(acc)

\* parse_ifd_tags(d, ifd_offset, le, known_tags, tags, exif_ifd, gps_ifd)
parse_ifd_tags(d, ifd_offset, le, known_tags, acc) ==
    IF ifd_offset + 2 > Len(d) THEN Some(acc)
    ELSE LET entry_count == read_u16(d, le, ifd_offset)
         IN  IF IsPanic(entry_count) THEN Panic
             ELSE IF ~IsSome(entry_count) THEN Some(acc)
             ELSE ifd_entries(d, le, known_tags, ifd_offset + 2, 0, entry_count.val, acc)

\* read_gps_coord(d, off, le): three rationals, each denominator .max(1)
read_gps_coord(d, off, le) ==
    LET deg_n == read_u32(d, le, off)
        deg_d == read_u32(d, le, off + 4)
        min_n == read_u32(d, le, off + 8)
        min_d == read_u32(d, le, off + 12)
        sec_n == read_u32(d, le, off + 16)
        sec_d == read_u32(d, le, off + 20)
    IN  IF ~IsSome(deg_n) THEN deg_n
        ELSE IF ~IsSome(deg_d) THEN deg_d
        ELSE IF ~IsSome(min_n) THEN min_n
        ELSE IF ~IsSome(min_d) THEN min_d
        ELSE IF ~IsSome(sec_n) THEN sec_n
        ELSE IF ~IsSome(sec_d) THEN sec_d
        ELSE Some(<< <<deg_n.val, Max(deg_d.val, 1)>>,
                     <<min_n.val, Max(min_d.val, 1)>>,
                     <<sec_n.val, Max(sec_d.val, 1)>> >>)

\* the locals of parse_gps_tags
GpsState(lat_ref, lon_ref, lat_vals, lon_vals, alt) ==
    [lat_ref |-> lat_ref, lon_ref |-> lon_ref, lat_vals |-> lat_vals, lon_vals |-> lon_vals,
     alt |-> alt]

\* parse_gps_tags: for i in 0..entry_count
RECURSIVE gps_entries(_, _, _, _, _, _)
gps_entries(d, le, entries_start, i, entry_count, g) ==
    IF i >= entry_count THEN Some(g)
    ELSE LET entry_off == entries_start + i * 12
             tag == read_u16(d, le, entry_off)
             dtype == read_u16(d, le, entry_off + 2)
             count == read_u32(d, le, entry_off + 4)
             offset == read_u32(d, le, entry_off + 8)
             continue(next) == gps_entries(d, le, entries_start, i + 1, entry_count, next)
         IN  IF entry_off + 12 > Len(d) THEN Some(g)
             ELSE IF IsPanic(tag) \/ IsPanic(dtype) \/ IsPanic(count) THEN Panic
             ELSE IF ~IsSome(tag) \/ ~IsSome(dtype) \/ ~IsSome(count) THEN continue(g)
             ELSE IF ~(dtype.val < Len(TYPE_SIZES)) THEN continue(g)
             ELSE LET total_bytes == TYPE_SIZES[dtype.val + 1] * count.val
                      data_off == IF total_bytes <= 4 THEN Some(entry_off + 8) ELSE offset
                  IN  IF IsPanic(data_off) THEN Panic
                      ELSE IF ~IsSome(data_off) THEN continue(g)
                      ELSE LET off == data_off.val
                               byte == IF off < Len(d) THEN index(d, off) ELSE None
                               coord == IF dtype.val = 5 /\ count.val = 3
                                        THEN read_gps_coord(d, off, le)
                                        ELSE None
                               num == read_u32(d, le, off)
                               den == read_u32(d, le, off + 4)
                           IN  CASE tag.val \in {1, 3} ->
                                      IF IsPanic(byte) THEN Panic
                                      ELSE IF ~IsSome(byte) THEN continue(g)
                                      ELSE IF tag.val = 1
                                      THEN continue(GpsState(byte, g.lon_ref, g.lat_vals,
                                                             g.lon_vals, g.alt))
                                      ELSE continue(GpsState(g.lat_ref, byte, g.lat_vals,
                                                             g.lon_vals, g.alt))
                                 [] tag.val \in {2, 4} ->
                                      IF IsPanic(coord) THEN Panic
                                      ELSE IF ~(dtype.val = 5 /\ count.val = 3) THEN continue(g)
                                      ELSE IF tag.val = 2
                                      THEN continue(GpsState(g.lat_ref, g.lon_ref, coord,
                                                             g.lon_vals, g.alt))
                                      ELSE continue(GpsState(g.lat_ref, g.lon_ref, g.lat_vals,
                                                             coord, g.alt))
                                 [] tag.val = 6 ->
                                      IF dtype.val # 5 THEN continue(g)
                                      ELSE IF IsPanic(num) \/ IsPanic(den) THEN Panic
                                      ELSE continue(GpsState(
                                               g.lat_ref, g.lon_ref, g.lat_vals, g.lon_vals,
                                               Some(<<IF IsSome(num) THEN num.val ELSE 0,
                                                      Max(IF IsSome(den) THEN den.val ELSE 1,
                                                          1)>>)))
                                 [] OTHER -> continue(g)

\* parse_gps_tags: the "GPS" and "Altitude" tags pushed after the loop
gps_tags(g) ==
    (IF IsSome(g.lat_vals) /\ IsSome(g.lat_ref) /\ IsSome(g.lon_vals) /\ IsSome(g.lon_ref)
     THEN << <<"GPS", [fmt |-> "gps",
                       val |-> <<g.lat_vals.val, g.lat_ref.val = 83,
                                 g.lon_vals.val, g.lon_ref.val = 87>>]>> >>
     ELSE <<>>)
    \o (IF IsSome(g.alt)
        THEN << <<"Altitude", [fmt |-> "altitude", val |-> g.alt.val]>> >>
        ELSE <<>>)

\* parse_gps_tags(d, ifd_offset, le, tags)
parse_gps_tags(d, ifd_offset, le, tags) ==
    IF ifd_offset + 2 > Len(d) THEN Some(tags)
    ELSE LET entry_count == read_u16(d, le, ifd_offset)
         IN  IF IsPanic(entry_count) THEN Panic
             ELSE IF ~IsSome(entry_count) THEN Some(tags)
             ELSE LET g == gps_entries(d, le, ifd_offset + 2, 0, entry_count.val,
                                       GpsState(None, None, None, None, None))
                  IN  IF IsPanic(g) THEN Panic ELSE Some(tags \o gps_tags(g.val))

\* parse_all_exif_tags(data, tiff_offset), after d = &data[tiff_offset..]
all_tags_of(d) ==
    LET le == byte_order(d)
        magic == read_u16(d, le.val, 2)
        ifd_offset == read_u32(d, le.val, 4)
        ifd0 == parse_ifd_tags(d, ifd_offset.val, le.val, IFD0_TAGS, IfdResult(<<>>, None, None))
        exif == IF IsSome(ifd0.val.exif_ifd)
                THEN parse_ifd_tags(d, ifd0.val.exif_ifd.val, le.val, EXIF_TAGS,
                                    IfdResult(ifd0.val.tags, None, None))
                ELSE ifd0
    IN  IF IsPanic(le) THEN Panic
        ELSE IF ~IsSome(le) THEN Some(<<>>)
        ELSE IF IsPanic(magic) THEN Panic
        ELSE IF ~IsSome(magic) \/ magic.val # 42 THEN Some(<<>>)
        ELSE IF IsPanic(ifd_offset) THEN Panic
        ELSE IF ~IsSome(ifd_offset) THEN Some(<<>>)
        ELSE IF IsPanic(ifd0) THEN Panic
        ELSE IF IsPanic(exif) THEN Panic
        ELSE IF IsSome(ifd0.val.gps_ifd)
        THEN parse_gps_tags(d, ifd0.val.gps_ifd.val, le.val, exif.val.tags)
        ELSE Some(exif.val.tags)

parse_all_exif_tags(data, tiff_offset) ==
    IF tiff_offset + 8 > Len(data) THEN Some(<<>>)
    ELSE LET d == slice_from(data, tiff_offset)
         IN  IF ~IsSome(d) THEN d ELSE all_tags_of(d.val)

\* read_exif_tags(data): the tags of a JPEG file
read_exif_tags(data) ==
    LET tiff_start == jpeg_exif_start(data)
    IN  IF IsPanic(tiff_start) THEN Panic
        ELSE IF ~IsSome(tiff_start) THEN Some(<<>>)
        ELSE parse_all_exif_tags(data, tiff_start.val)

\* ------------------------------------------------------------------------
\* the files ExifSpec is run on
\* ------------------------------------------------------------------------

\* v.to_le_bytes(), v.to_be_bytes()
u16_bytes(le, v) == IF le THEN <<v % 256, v \div 256>> ELSE <<v \div 256, v % 256>>

u32_bytes(le, v) ==
    IF le THEN <<v % 256, (v \div 256) % 256, (v \div 65536) % 256, v \div 16777216>>
    ELSE <<v \div 16777216, (v \div 65536) % 256, (v \div 256) % 256, v % 256>>

\* the first n bytes of a file
Prefix(d, n) == SubSeq(d, 1, Min(n, Len(d)))

\* n bytes that belong to no structure
Padding(n) == [i \in 1..n |-> 0]

\* build_tiff_with_orientation(le, orientation) of the tests
build_tiff_with_orientation(le, orientation) ==
    (IF le THEN <<73, 73>> ELSE <<77, 77>>)
    \o u16_bytes(le, 42)
    \o u32_bytes(le, 8)
    \o u16_bytes(le, 1)
    \o u16_bytes(le, 274) \o u16_bytes(le, 3) \o u32_bytes(le, 1)
    \o u16_bytes(le, orientation) \o <<0, 0>>
    \o <<0, 0, 0, 0>>

\* the PNG file of test_exif_png_extraction
png_with_exif(tiff) ==
    <<137, 80, 78, 71, 13, 10, 26, 10>>
    \o u32_bytes(FALSE, Len(tiff)) \o eXIf \o tiff \o <<0, 0, 0, 0>>

\* the WebP file of test_exif_webp_extraction; the chunk may carry the
\* "Exif\0\0" prefix some encoders write
webp_with_exif(tiff, prefixed) ==
    LET payload == IF prefixed THEN Exif00 \o tiff ELSE tiff
    IN  RIFF \o u32_bytes(TRUE, 4 + 8 + Len(payload)) \o WEBP
        \o EXIF \o u32_bytes(TRUE, Len(payload)) \o payload
        \o (IF Len(payload) % 2 # 0 THEN <<0>> ELSE <<>>)

\* a 12-byte IFD entry
ifd_entry(le, tag, dtype, count, value) ==
    u16_bytes(le, tag) \o u16_bytes(le, dtype) \o u32_bytes(le, count) \o value

\* a TIFF header with any byte-order mark, magic number and IFD0 offset
tiff_header(mark, le, magic, ifd_offset) == mark \o u16_bytes(le, magic) \o u32_bytes(le, ifd_offset)

MaxOrientation == 9
OrientationValues == 0..MaxOrientation \cup {255, 256, 65535}

\* a file and the call it is given to
ExifInput(kind, data, tiff_offset, build, minimal, le, orientation) ==
    [kind |-> kind, data |-> data, tiff_offset |-> tiff_offset, build |-> build,
     minimal |-> minimal, le |-> le, orientation |-> orientation]

Malformed(kind, data) == ExifInput(kind, data, 0, "release", FALSE, TRUE, 0)

\* the minimal structure, bare and wrapped
MinimalInputs ==
    UNION { { ExifInput("tiff", build_tiff_with_orientation(le, v), 0, "release", TRUE, le, v),
              ExifInput("png", png_with_exif(build_tiff_with_orientation(le, v)), 0, "release",
                        TRUE, le, v),
              ExifInput("webp", webp_with_exif(build_tiff_with_orientation(le, v), FALSE), 0,
                        "release", TRUE, le, v),
              ExifInput("webp", webp_with_exif(build_tiff_with_orientation(le, v), TRUE), 0,
                        "release", TRUE, le, v) } :
            le \in BOOLEAN, v \in OrientationValues }

AllPrefixes(d) == { Prefix(d, n) : n \in 0..Len(d) }

\* a TIFF file whose header, IFD0 offset or entry count is wrong
ByteOrderMarks == {<<73, 73>>, <<77, 77>>, <<73, 77>>, <<0, 0>>}
Magics == {42, 43, 10752}
IfdOffsets == {0, 4, 8, 10, 14, 24, 25, 26, 1000, Big}
EntryCounts == {0, 1, 2, 32639}

HeaderInputs ==
    { Malformed("tiff",
                tiff_header(mark, le, magic, ifd_offset) \o u16_bytes(le, entry_count)
                \o ifd_entry(le, 274, 3, 1, u16_bytes(le, 6) \o <<0, 0>>) \o <<0, 0, 0, 0>>) :
        mark \in ByteOrderMarks, le \in BOOLEAN, magic \in Magics, ifd_offset \in IfdOffsets,
        entry_count \in EntryCounts }

\* the minimal structure cut short, and started at every offset in and past it
TruncatedInputs ==
    UNION { { Malformed("tiff", d) : d \in AllPrefixes(build_tiff_with_orientation(le, 6)) } :
            le \in BOOLEAN }

MaxPadding == 6

OffsetInputs ==
    { ExifInput("tiff", Padding(p) \o build_tiff_with_orientation(le, 6), tiff_offset,
                "release", FALSE, le, 6) :
        p \in {0, MaxPadding}, le \in BOOLEAN, tiff_offset \in 0..(MaxPadding + 28) \cup {1000} }

\* a TIFF file with one IFD0 entry e0, a second IFD at offset 26 with the
\* entries sub, and 24 bytes of values after it
tag_tiff(le, e0, sub) ==
    tiff_header(IF le THEN <<73, 73>> ELSE <<77, 77>>, le, 42, 8)
    \o u16_bytes(le, 1) \o e0 \o <<0, 0, 0, 0>>
    \o u16_bytes(le, Len(sub) \div 12) \o sub \o <<0, 0, 0, 0>>
    \o [i \in 1..24 |-> i % 4]

\* where the 24 bytes of values start
values_at(sub) == 26 + 2 + Len(sub) + 4

\* the entries of a GPS IFD that also holds one EXIF tag
gps_ifd(le, at) ==
    ifd_entry(le, 1, 2, 2, <<78, 0, 0, 0>>)
    \o ifd_entry(le, 2, 5, 3, u32_bytes(le, at))
    \o ifd_entry(le, 3, 2, 2, <<87, 0, 0, 0>>)
    \o ifd_entry(le, 4, 5, 3, u32_bytes(le, at))
    \o ifd_entry(le, 6, 5, 1, u32_bytes(le, at))
    \o ifd_entry(le, 33434, 5, 1, u32_bytes(le, at))

EntryTags == {274, 271, 282, 34665, 34853, 39321}
EntryTypes == {0, 2, 3, 4, 5, 7, 10, 11, 32639}
EntryValueCounts == {0, 1, 3, 4, 5, Big}
EntryValues == {0, 8, 26, 104, 127, 1000, Big}
TagCuts == {26, 60, 128}

TagInputs ==
    { Malformed("tiff",
                Prefix(tag_tiff(le, ifd_entry(le, tag, dtype, count, u32_bytes(le, value)),
                                gps_ifd(le, 104)), cut)) :
        le \in BOOLEAN, tag \in EntryTags, dtype \in EntryTypes, count \in EntryValueCounts,
        value \in EntryValues, cut \in TagCuts }

GpsTags == {1, 2, 3, 4, 6, 7}
GpsTypes == {1, 2, 5, 11}
GpsCounts == {1, 3, 5, Big}
GpsValues == {116, 120, 139, 140, Big}
GpsCuts == {110, 130, 140}

GpsInputs ==
    { Malformed("tiff",
                Prefix(tag_tiff(le, ifd_entry(le, 34853, 4, 1, u32_bytes(le, 26)),
                                ifd_entry(le, tag, dtype, count, u32_bytes(le, value))
                                \o gps_ifd(le, 116)), cut)) :
        le \in BOOLEAN, tag \in GpsTags, dtype \in GpsTypes, count \in GpsCounts,
        value \in GpsValues, cut \in GpsCuts }

TiffInputs == HeaderInputs \cup TruncatedInputs \cup OffsetInputs \cup TagInputs \cup GpsInputs

\* a JPEG segment: FF, the marker, a length field and the payload; the length
\* a well-formed segment declares is 2 + Len(payload)
segment(marker, len_field, payload) == <<255, marker>> \o u16_bytes(FALSE, len_field) \o payload

app1_exif(tiff) == segment(225, 2 + 6 + Len(tiff), Exif00 \o tiff)

\* what may stand between SOI and the EXIF segment
JpegLeads ==
    { <<>>,
      segment(224, 4, <<1, 2>>),
      segment(224, 0, <<>>),
      segment(224, 3, <<1, 2>>),
      segment(224, 1000, <<1, 2>>),
      segment(224, 65535, <<1, 2>>),
      segment(225, 8, <<104, 116, 116, 112, 0, 0>>),
      segment(225, 4, <<69, 120>>),
      segment(218, 4, <<1, 2>>),
      <<0, 224, 0, 4, 1, 2>> }

JpegTiffs ==
    { build_tiff_with_orientation(TRUE, 6),
      build_tiff_with_orientation(FALSE, 8),
      tag_tiff(TRUE, ifd_entry(TRUE, 34853, 4, 1, u32_bytes(TRUE, 26)), gps_ifd(TRUE, 104)) }

JpegInputs ==
    UNION { { Malformed("jpeg", d) : d \in AllPrefixes(<<255, 216>> \o lead \o app1_exif(tiff)) } :
            lead \in JpegLeads, tiff \in JpegTiffs }
    \cup { Malformed("jpeg", <<255, 217>> \o app1_exif(build_tiff_with_orientation(TRUE, 6))) }

\* a PNG chunk: length field, type, payload, CRC
chunk(len_field, type, payload, crc) == u32_bytes(FALSE, len_field) \o type \o payload \o crc

IHDR == <<73, 72, 68, 82>>
ChunkLengths == {0, 2, 5, 25, 26, 27, Big}

PngInputs ==
    UNION { AllPrefixes(png_with_exif(build_tiff_with_orientation(le, 6))) : le \in BOOLEAN }
    \cup { <<137, 80, 78, 71, 13, 10, 26, 10>> \o lead
           \o chunk(len_field, eXIf, build_tiff_with_orientation(TRUE, 6), crc) :
             lead \in { <<>> } \cup { chunk(n, IHDR, <<1, 2>>, <<0, 0, 0, 0>>) : n \in ChunkLengths },
             len_field \in ChunkLengths,
             crc \in { <<>>, <<0, 0, 0, 0>> } }
    \cup { <<137, 80, 78, 72>> \o Padding(4)
           \o chunk(26, eXIf, build_tiff_with_orientation(TRUE, 6), <<0, 0, 0, 0>>) }

\* a RIFF chunk: fourcc, size field, payload (padded by the caller)
riff_chunk(fourcc, size_field, payload) == fourcc \o u32_bytes(TRUE, size_field) \o payload

VP8 == <<86, 80, 56, 32>>
ChunkSizes == {0, 3, 4, 5, 6, 7, 26, 27, 32, 33, Big}

WebpInputs ==
    UNION { AllPrefixes(webp_with_exif(build_tiff_with_orientation(le, 6), prefixed)) :
            le \in BOOLEAN, prefixed \in BOOLEAN }
    \cup { RIFF \o u32_bytes(TRUE, 100) \o WEBP \o lead
           \o riff_chunk(EXIF, size_field,
                         (IF prefixed THEN Exif00 ELSE <<>>)
                         \o build_tiff_with_orientation(TRUE, 6)) :
             lead \in { <<>> } \cup { riff_chunk(VP8, n, <<1, 2, 3, 0>>) : n \in ChunkSizes },
             size_field \in ChunkSizes,
             prefixed \in BOOLEAN }
    \cup { RIFF \o u32_bytes(TRUE, 100) \o <<87, 69, 66, 77>>
           \o riff_chunk(EXIF, 26, build_tiff_with_orientation(TRUE, 6)) }

\* an ISOBMFF box: size field, type, and what follows the 8-byte header
box(size_field, type, rest) == u32_bytes(FALSE, size_field) \o type \o rest

ftyp == <<102, 116, 121, 112>>
free == <<102, 114, 101, 101>>

\* the 8 bytes of a 64-bit extended size: small sizes, sizes within 16 of
\* 2^64, and one in between
ExtendedSizes ==
    { <<0, 0, 0, 0>> \o u32_bytes(FALSE, n) : n \in {0, 8, 15, 16, 20, 46, 50, 1000} }
    \cup { <<255, 255, 255, 255, 255, 255, 255, 240>>,
           <<255, 255, 255, 255, 255, 255, 255, 255>>,
           <<0, 0, 0, 1, 0, 0, 0, 0>> }

BoxSizes == {0, 1, 7, 8, 9, 11, 12, 13, 16, 46, 50, 1000, Big}
BoxCuts == {8, 12, 16, 24, 32, 40, 100}

\* an EXIF item: the 4-byte offset of the TIFF header, then the TIFF data
exif_item(tiff_offset, tiff) == u32_bytes(FALSE, tiff_offset) \o tiff

AvifFiles ==
    { Prefix(lead
             \o box(size_field, type,
                    ext \o <<0, 0, 0, 0>> \o exif_item(0, build_tiff_with_orientation(le, 6))),
             cut) :
        lead \in { <<>>, box(16, ftyp, Padding(8)) },
        size_field \in BoxSizes,
        type \in { meta, free },
        ext \in ExtendedSizes,
        le \in BOOLEAN,
        cut \in BoxCuts }

AvifInputs ==
    { ExifInput("avif", d, 0, build, FALSE, TRUE, 0) : d \in AvifFiles, build \in BuildProfiles }

ItemOffsets == {0, 21, 22, Big}

JxlFiles ==
    { Prefix(lead
             \o box(size_field, type,
                    ext \o exif_item(tiff_offset, build_tiff_with_orientation(TRUE, 6))),
             cut) :
        lead \in { jxl_sig, Prefix(jxl_sig, 11) \o <<11>> },
        size_field \in BoxSizes,
        type \in { Exif, free },
        ext \in ExtendedSizes,
        tiff_offset \in ItemOffsets,
        cut \in BoxCuts }

JxlInputs ==
    { ExifInput("jxl", d, 0, build, FALSE, TRUE, 0) : d \in JxlFiles, build \in BuildProfiles }

ExifInputs ==
    MinimalInputs \cup TiffInputs \cup JpegInputs
    \cup { Malformed("png", d) : d \in PngInputs }
    \cup { Malformed("webp", d) : d \in WebpInputs }
    \cup AvifInputs \cup JxlInputs

ExifInit ==
    /\ op = "init"
    /\ inp \in ExifInputs
    /\ out = None
    /\ DecIdle

\* parse_tiff_orientation(data, tiff_offset)
ParseTiffOrientation ==
    /\ op = "init"
    /\ inp.kind = "tiff"
    /\ op' = "parse_tiff_orientation"
    /\ out' = parse_tiff_orientation(inp.data, inp.tiff_offset)
    /\ UNCHANGED <<inp, decVars>>

\* parse_all_exif_tags(data, tiff_offset)
ParseAllExifTags ==
    /\ op = "init"
    /\ inp.kind = "tiff"
    /\ op' = "parse_all_exif_tags"
    /\ out' = parse_all_exif_tags(inp.data, inp.tiff_offset)
    /\ UNCHANGED <<inp, decVars>>

\* read_exif_orientation_tiff(data)
ReadExifOrientationTiff ==
    /\ op = "init"
    /\ inp.kind = "tiff"
    /\ op' = "read_exif_orientation_tiff"
    /\ out' = read_exif_orientation_tiff(inp.data)
    /\ UNCHANGED <<inp, decVars>>

\* read_exif_orientation(data)
ReadExifOrientation ==
    /\ op = "init"
    /\ inp.kind = "jpeg"
    /\ op' = "read_exif_orientation"
    /\ out' = read_exif_orientation(inp.data)
    /\ UNCHANGED <<inp, decVars>>

\* read_exif_tags(data)
ReadExifTags ==
    /\ op = "init"
    /\ inp.kind = "jpeg"
    /\ op' = "read_exif_tags"
    /\ out' = read_exif_tags(inp.data)
    /\ UNCHANGED <<inp, decVars>>

\* extract_png_exif(data)
ExtractPngExif ==
    /\ op = "init"
    /\ inp.kind = "png"
    /\ op' = "extract_png_exif"
    /\ out' = extract_png_exif(inp.data)
    /\ UNCHANGED <<inp, decVars>>

\* read_exif_orientation_png(data)
ReadExifOrientationPng ==
    /\ op = "init"
    /\ inp.kind = "png"
    /\ op' = "read_exif_orientation_png"
    /\ out' = read_exif_orientation_png(inp.data)
    /\ UNCHANGED <<inp, decVars>>

\* extract_webp_exif(data)
ExtractWebpExif ==
    /\ op = "init"
    /\ inp.kind = "webp"
    /\ op' = "extract_webp_exif"
    /\ out' = extract_webp_exif(inp.data)
    /\ UNCHANGED <<inp, decVars>>

\* read_exif_orientation_webp(data)
ReadExifOrientationWebp ==
    /\ op = "init"
    /\ inp.kind = "webp"
    /\ op' = "read_exif_orientation_webp"
    /\ out' = read_exif_orientation_webp(inp.data)
    /\ UNCHANGED <<inp, decVars>>

\* extract_avif_exif(data)
ExtractAvifExif ==
    /\ op = "init"
    /\ inp.kind = "avif"
    /\ op' = "extract_avif_exif"
    /\ out' = extract_avif_exif(inp.data, inp.build)
    /\ UNCHANGED <<inp, decVars>>

\* extract_jxl_exif(data)
ExtractJxlExif ==
    /\ op = "init"
    /\ inp.kind = "jxl"
    /\ op' = "extract_jxl_exif"
    /\ out' = extract_jxl_exif(inp.data, inp.build)
    /\ UNCHANGED <<inp, decVars>>

ExifNext ==
    \/ ParseTiffOrientation
    \/ ParseAllExifTags
    \/ ReadExifOrientationTiff
    \/ ReadExifOrientation
    \/ ReadExifTags
    \/ ExtractPngExif
    \/ ReadExifOrientationPng
    \/ ExtractWebpExif
    \/ ReadExifOrientationWebp
    \/ ExtractAvifExif
    \/ ExtractJxlExif

ExifSpec == ExifInit /\ [][ExifNext]_vars

\* ------------------------------------------------------------------------
\* Claims about the metadata extractors
\* ------------------------------------------------------------------------

\* C6: whatever sizes a JPEG, PNG, WebP, AVIF/HEIC or JPEG XL file declares
\* for its segments, chunks and boxes, the container extractors return (None,
\* an empty tag list, or what they found); they never panic and never slice
\* out of range.
C6_ExtractorsNeverPanic ==
    op \in {"read_exif_orientation", "read_exif_tags", "extract_png_exif", "extract_webp_exif",
            "extract_avif_exif", "extract_jxl_exif"}
        => ~IsPanic(out)

\* the TIFF data starts with "II" or "MM" and the magic number 42 in that order
HeaderOk(data, tiff_offset) ==
    /\ tiff_offset + 8 <= Len(data)
    /\ \/ SubSeq(data, tiff_offset + 1, tiff_offset + 4) = <<73, 73, 42, 0>>
       \/ SubSeq(data, tiff_offset + 1, tiff_offset + 4) = <<77, 77, 0, 42>>

\* the IFD0 offset a well-formed header declares
Ifd0Offset(data, tiff_offset) ==
    u32_at(data, data[tiff_offset + 1] = 73, tiff_offset + 4).val

\* None from parse_tiff_orientation, an empty list from parse_all_exif_tags
Nothing ==
    IF op = "parse_tiff_orientation" THEN out.tag = "None"
    ELSE IsSome(out) /\ out.val = <<>>

\* C7: for every byte slice and TIFF start offset the TIFF walker never
\* indexes outside the slice; a wrong byte-order mark, a magic number other
\* than 42 and an IFD0 offset outside the data give no orientation and an
\* empty tag list.
C7_WalkerStaysInRange ==
    op \in {"parse_tiff_orientation", "parse_all_exif_tags"} =>
        /\ ~IsPanic(out)
        /\ ~HeaderOk(inp.data, inp.tiff_offset) => Nothing
        /\ (/\ HeaderOk(inp.data, inp.tiff_offset)
            /\ Ifd0Offset(inp.data, inp.tiff_offset) + 2 > Len(inp.data) - inp.tiff_offset)
               => Nothing

\* an Orientation entry of 5 SHORTs whose value offset is outside the data
\* has been skipped
C7_Witness ==
    /\ op = "parse_all_exif_tags"
    /\ inp.data = tag_tiff(TRUE, ifd_entry(TRUE, 274, 3, 5, u32_bytes(TRUE, 1000)),
                           gps_ifd(TRUE, 104))
    /\ IsSome(out)
    /\ out.val = <<>>

\* C8: the minimal TIFF structure with orientation v, in either byte order,
\* gives Some(v) from parse_tiff_orientation, and the same value when it is
\* read as a raw TIFF file, from a PNG eXIf chunk and from a WebP EXIF chunk
\* with or without the "Exif\0\0" prefix.
C8_MinimalRoundTrip ==
    (/\ op \in {"parse_tiff_orientation", "read_exif_orientation_tiff",
                "read_exif_orientation_png", "read_exif_orientation_webp"}
     /\ inp.minimal)
        => IsSome(out) /\ out.val = inp.orientation

\* orientation 8 in big-endian order has come out of a prefixed WebP chunk
C8_Witness ==
    /\ op = "read_exif_orientation_webp"
    /\ inp.data = webp_with_exif(build_tiff_with_orientation(FALSE, 8), TRUE)
    /\ IsSome(out)
    /\ out.val = 8

\* ------------------------------------------------------------------------
\* BMP decoding (decode_bmp)
\* ------------------------------------------------------------------------

\* Result<LoadedImage, String>
Ok(v) == [tag |-> "Ok", val |-> v]
Err(msg) == [tag |-> "Err", msg |-> msg]
IsOk(o) == o.tag = "Ok"
IsErr(o) == o.tag = "Err"

\* LoadedImage::Static(img)
Static(img) == [kind |-> "Static", img |-> img]

\* row_size_u64 = ((w * bits_per_pixel + 31) / 32) * 4
bmp_row_size(w, bits_per_pixel) == ((w * bits_per_pixel + 31) \div 32) * 4

\* a decoder that reads every file top-down
bmp_src_row_top_down(height, h, y) == y

\* src_row: the file row of output row y
bmp_src_row(height, h, y) == IF height > 0 THEN h - 1 - y ELSE y

\* four bytes read from the file, put into one pixel; a read outside the file
\* is the panic of the whole call
rgba(r, g, b, a) ==
    IF IsPanic(r) \/ IsPanic(g) \/ IsPanic(b) \/ IsPanic(a) THEN Panic
    ELSE Some(<<r.val, g.val, b.val, a.val>>)

\* the 24-bit arm: rgba_data[dst..dst + 4] for pixel (x, y)
bmp_pixel_24(data, data_offset, row_size, height, h, x, y) ==
    LET src_idx == data_offset + (bmp_src_row(height, h, y) * row_size) + (x * 3)
    IN  rgba(index(data, src_idx + 2), index(data, src_idx + 1), index(data, src_idx), Some(255))

\* the 32-bit arm
bmp_pixel_32(data, data_offset, row_size, height, h, x, y) ==
    LET src_idx == data_offset + (bmp_src_row(height, h, y) * row_size) + (x * 4)
    IN  rgba(index(data, src_idx + 2), index(data, src_idx + 1), index(data, src_idx),
             index(data, src_idx + 3))

\* palette[i]: [data[off + 2], data[off + 1], data[off], 255]
bmp_palette_entry(data, color_table_offset, i) ==
    LET off == color_table_offset + i * 4
    IN  rgba(index(data, off + 2), index(data, off + 1), index(data, off), Some(255))

\* the index the pixel's bits select: the byte for 8 bpp, the high nibble
\* first for 4 bpp, the most significant bit first for 1 bpp
bmp_pixel_index(data, bits_per_pixel, row_start, x) ==
    IF bits_per_pixel = 8 THEN index(data, row_start + x)
    ELSE IF bits_per_pixel = 4 THEN
        LET byte == index(data, row_start + (x \div 2))
        IN  IF IsPanic(byte) THEN Panic
            ELSE Some(IF x % 2 = 0 THEN byte.val \div 16 ELSE byte.val % 16)
    ELSE
        LET byte == index(data, row_start + (x \div 8))
            bit == 7 - (x % 8)
        IN  IF IsPanic(byte) THEN Panic
            ELSE Some((byte.val \div (2 ^ bit)) % 2)

\* the 1 | 4 | 8 arm: the palette entry of the pixel's index; a pixel whose
\* index has no entry keeps the zeros rgba_data was created with
bmp_pixel_indexed(data, bits_per_pixel, data_offset, row_size, height, h, color_table_offset, clr_used, x, y) ==
    LET row_start == data_offset + bmp_src_row(height, h, y) * row_size
        pidx == bmp_pixel_index(data, bits_per_pixel, row_start, x)
    IN  IF IsPanic(pidx) THEN Panic
        ELSE IF pidx.val < clr_used THEN bmp_palette_entry(data, color_table_offset, pidx.val)
        ELSE Some(<<0, 0, 0, 0>>)

\* pixel (x, y) of the output, by bit depth
bmp_pixel(data, bits_per_pixel, data_offset, row_size, height, h, color_table_offset, clr_used, x, y) ==
    IF bits_per_pixel = 24 THEN bmp_pixel_24(data, data_offset, row_size, height, h, x, y)
    ELSE IF bits_per_pixel = 32 THEN bmp_pixel_32(data, data_offset, row_size, height, h, x, y)
    ELSE bmp_pixel_indexed(data, bits_per_pixel, data_offset, row_size, height, h,
                           color_table_offset, clr_used, x, y)

\* the loops over y and x: rgba_data when every read was inside the file
bmp_rgba_data(data, bits_per_pixel, data_offset, row_size, height, w, h, color_table_offset, clr_used, pixel_count) ==
    LET px == [k \in 0..(w * h - 1) |->
                  bmp_pixel(data, bits_per_pixel, data_offset, row_size, height, h,
                            color_table_offset, clr_used, k % w, k \div w)]
    IN  IF \E k \in 0..(w * h - 1) : IsPanic(px[k]) \/ k * 4 + 4 > pixel_count THEN Panic
        ELSE Some([i \in 1..pixel_count |-> px[(i - 1) \div 4].val[((i - 1) % 4) + 1]])

\* RgbaImage::from_raw(w, h, rgba_data) and the Ok(LoadedImage::Static(img))
bmp_finish(w, h, rgba_data) ==
    IF IsPanic(rgba_data) THEN Panic
    ELSE LET img == from_raw(w, h, rgba_data.val)
         IN  IF IsSome(img) THEN Ok(Static(img.val))
             ELSE Err("BMP pixel buffer size mismatch")

\* the colour table of the 1 | 4 | 8 arm, then the indexed pixels
bmp_indexed(data, bits_per_pixel, compression, data_offset, dib_header_size, row_size, height, w, h, pixel_count) ==
    IF compression = 1 THEN Err("Unsupported BMP compression: BI_RLE8")
    ELSE IF compression = 2 THEN Err("Unsupported BMP compression: BI_RLE4")
    ELSE LET max_colors == 2 ^ bits_per_pixel
             v == u32_at(data, TRUE, 46).val
             clr_used == IF Len(data) >= 50 THEN (IF v = 0 THEN max_colors ELSE v)
                         ELSE max_colors
             color_table_offset == 14 + dib_header_size
             color_table_end == color_table_offset + clr_used * 4
         IN  IF clr_used > max_colors THEN Err("Invalid BMP color table")
             ELSE IF color_table_end > Len(data) THEN Err("BMP color table truncated")
             ELSE bmp_finish(w, h,
                      bmp_rgba_data(data, bits_per_pixel, data_offset, row_size, height, w, h,
                                    color_table_offset, clr_used, pixel_count))

\* match bits_per_pixel
bmp_match_depth(data, bits_per_pixel, compression, data_offset, dib_header_size, row_size, height, w, h, pixel_count) ==
    IF bits_per_pixel \in {24, 32} THEN
        bmp_finish(w, h, bmp_rgba_data(data, bits_per_pixel, data_offset, row_size, height,
                                       w, h, 0, 0, pixel_count))
    ELSE IF bits_per_pixel \in {1, 4, 8} THEN
        bmp_indexed(data, bits_per_pixel, compression, data_offset, dib_header_size, row_size,
                    height, w, h, pixel_count)
    ELSE Err("Unknown BMP bit depth")

\* a decoder that goes to the pixels without comparing the file's length
\* with data_offset + row_size * h
bmp_sized_unchecked(data, bits_per_pixel, compression, data_offset, dib_header_size, width, height) ==
    LET w == width
        h == IF height < 0 THEN -height ELSE height
        row_size == bmp_row_size(w, bits_per_pixel)
        pixel_count == byte_size(w, h)
    IN  IF ~validate_dimensions(w, h) THEN Err("BMP image too large")
        ELSE IF ~IsSome(pixel_count) THEN Err("BMP dimensions overflow")
        ELSE bmp_match_depth(data, bits_per_pixel, compression, data_offset, dib_header_size,
                             row_size, height, w, h, pixel_count.val)

\* validate_dimensions, the truncation check and the allocation of rgba_data
bmp_sized(data, bits_per_pixel, compression, data_offset, dib_header_size, width, height) ==
    LET w == width
        h == IF height < 0 THEN -height ELSE height
        row_size == bmp_row_size(w, bits_per_pixel)
        expected_size == data_offset + row_size * h
        pixel_count == byte_size(w, h)
    IN  IF ~validate_dimensions(w, h) THEN Err("BMP image too large")
        ELSE IF Len(data) < expected_size THEN Err("BMP file truncated")
        ELSE IF ~IsSome(pixel_count) THEN Err("BMP dimensions overflow")
        ELSE bmp_match_depth(data, bits_per_pixel, compression, data_offset, dib_header_size,
                             row_size, height, w, h, pixel_count.val)

\* decode_bmp(data, path_display)
decode_bmp(data) ==
    IF Len(data) < 54 THEN Err("File too small to be BMP")
    ELSE IF SubSeq(data, 1, 2) # <<66, 77>> THEN Err("Not a BMP file")
    ELSE LET data_offset == u32_at(data, TRUE, 10).val
             dib_header_size == u32_at(data, TRUE, 14).val
             width == i32_at(data, TRUE, 18).val
             height == i32_at(data, TRUE, 22).val
             bits_per_pixel == u16_at(data, TRUE, 28).val
             compression == IF Len(data) >= 34 THEN u32_at(data, TRUE, 30).val ELSE 0
         IN  IF width <= 0 \/ height = 0 THEN Err("Invalid BMP dimensions")
             ELSE bmp_sized(data, bits_per_pixel, compression, data_offset, dib_header_size,
                            width, height)

\* ------------------------------------------------------------------------
\* the files decode_bmp is run on
\* ------------------------------------------------------------------------

\* (v as i32).to_le_bytes()
i32_bytes(v) == <<v % 256, (v \div 256) % 256, (v \div 65536) % 256, (v \div 16777216) % 256>>

\* the bytes of a colour table given as a sequence of BGRA entries
table_bytes(color_table) ==
    [i \in 1..(4 * Len(color_table)) |-> color_table[((i - 1) \div 4) + 1][((i - 1) % 4) + 1]]

\* a BMP file: the 14-byte file header, a DIB header of dib_header_size
\* bytes, the colour table, gap unused bytes and the pixel data
bmp_file(dib_header_size, gap, width, height, bpp, compression, clr_used, color_table, pixel_data) ==
    LET data_offset == 14 + dib_header_size + 4 * Len(color_table) + gap
        file_size == data_offset + Len(pixel_data)
    IN  <<66, 77>> \o u32_bytes(TRUE, file_size) \o Padding(4) \o u32_bytes(TRUE, data_offset)
        \o u32_bytes(TRUE, dib_header_size) \o i32_bytes(width) \o i32_bytes(height)
        \o u16_bytes(TRUE, 1) \o u16_bytes(TRUE, bpp) \o u32_bytes(TRUE, compression)
        \o u32_bytes(TRUE, Len(pixel_data)) \o Padding(8) \o u32_bytes(TRUE, clr_used)
        \o u32_bytes(TRUE, 0) \o Padding(dib_header_size - 40)
        \o table_bytes(color_table) \o Padding(gap) \o pixel_data

\* build_bmp(width, height, bpp, compression, color_table, pixel_data) of the tests
build_bmp(width, height, bpp, compression, color_table, pixel_data) ==
    bmp_file(40, 0, width, height, bpp, compression, Len(color_table), color_table, pixel_data)

\* d with the bytes at offset off replaced
poke(d, off, bytes) ==
    [i \in 1..Len(d) |-> IF i > off /\ i <= off + Len(bytes) THEN bytes[i - off] ELSE d[i]]

\* a colour table of n entries with three different channels each
color_table_of(n) == [i \in 1..n |-> <<(40 * i + 10) % 256, (40 * i + 20) % 256, (40 * i + 30) % 256, 0>>]

\* pixel data of n bytes; the 8-bit indices stay near a small table
pixel_data_of(n, bpp, fill) ==
    [i \in 1..n |-> IF bpp = 8 THEN (i + fill) % 6 ELSE (fill * 101 + i * 59 + 27) % 256]

\* width and height field: bottom-up and top-down, rows that end inside a
\* byte and inside the padding
BmpShapes == {<<2, 2>>, <<2, -2>>, <<3, 1>>, <<1, -3>>, <<9, 1>>}

BmpDepths == {1, 4, 8, 24, 32}

\* the number of colour-table entries a file of that depth is given
BmpTableSizes(bpp) ==
    IF bpp = 1 THEN {1, 2}
    ELSE IF bpp = 4 THEN {2, 4, 16}
    ELSE IF bpp = 8 THEN {2, 4}
    ELSE {0, 2}

\* the biClrUsed field written for a table of n entries
BmpClrUsed(bpp, n) == IF bpp <= 8 /\ n = 2 ^ bpp THEN {0, n} ELSE {n}

BmpInput(data, valid, width, height, bpp, color_table, pixel_data) ==
    [kind |-> "bmp", data |-> data, valid |-> valid, width |-> width, height |-> height,
     bpp |-> bpp, color_table |-> color_table, pixel_data |-> pixel_data]

\* a well-formed uncompressed file of the given layout
BmpValid(dib_header_size, gap, sh, bpp, n, clr_used, fill) ==
    LET h == IF sh[2] < 0 THEN -sh[2] ELSE sh[2]
        pixel_data == pixel_data_of(bmp_row_size(sh[1], bpp) * h, bpp, fill)
    IN  BmpInput(bmp_file(dib_header_size, gap, sh[1], sh[2], bpp, 0, clr_used,
                          color_table_of(n), pixel_data),
                 TRUE, sh[1], sh[2], bpp, color_table_of(n), pixel_data)

ValidBmpInputs ==
    UNION { UNION { { BmpValid(dib, gap, sh, bpp, n, clr_used, fill) :
                        clr_used \in BmpClrUsed(bpp, n), dib \in {40, 44}, gap \in {0, 2},
                        fill \in 0..(NumFills - 1) }
                    : n \in BmpTableSizes(bpp) }
            : sh \in BmpShapes, bpp \in BmpDepths }

\* the files the defects below are put into
BmpBases == { i \in ValidBmpInputs : i.data[15] = 40 /\ i.pixel_data[1] = pixel_data_of(1, i.bpp, 0)[1] }

\* the base file with some bytes replaced and some bytes cut off the end
BmpBroken(base, off, bytes, cut) ==
    BmpInput(Prefix(poke(base.data, off, bytes), Len(base.data) - cut),
             FALSE, base.width, base.height, base.bpp, base.color_table, base.pixel_data)

\* the compression field set to BI_RLE8, BI_RLE4 and BI_BITFIELDS, with all
\* of the pixel data and with less
BmpCompressed ==
    { BmpBroken(b, 30, u32_bytes(TRUE, c), cut) : b \in BmpBases, c \in {1, 2, 3}, cut \in {0, 1, 3} }

BmpTruncated ==
    UNION { { BmpBroken(b, 0, <<66>>, cut) :
                  cut \in {1, 4, Len(b.data) - 54, Len(b.data) - 53, Len(b.data)} }
            : b \in BmpBases }

BmpSignatures == { BmpBroken(b, 0, sig, 0) : b \in BmpBases, sig \in {<<66, 78>>, <<77, 66>>, <<0, 77>>} }

\* width and height fields: zero, negative width, too many pixels, and
\* dimensions far beyond the data
BmpDimensions ==
    { BmpBroken(b, 18, i32_bytes(wh[1]) \o i32_bytes(wh[2]), 0) :
          b \in BmpBases,
          wh \in {<<0, 1>>, <<-1, 2>>, <<2, 0>>, <<16385, 16384>>, <<16384, -16384>>,
                  <<1, 268435456>>, <<4, 1>>, <<1, 4>>} }

BmpUnknownDepths == { BmpBroken(b, 28, u16_bytes(TRUE, bpp), 0) : b \in BmpBases, bpp \in {0, 2, 16, 64, 65535} }

BmpClrUsedFields ==
    { BmpBroken(b, 46, u32_bytes(TRUE, v), 0) : b \in BmpBases, v \in {0, 1, 3, 5, 17, 257, Big} }

BmpHeaderSizes ==
    { BmpBroken(b, 14, u32_bytes(TRUE, v), 0) : b \in BmpBases, v \in {0, 12, 36, 44, 1000, Big} }

BmpDataOffsets ==
    UNION { { BmpBroken(b, 10, u32_bytes(TRUE, v), 0) :
                  v \in {0, 14, 53, Len(b.data) - 1, Len(b.data), 1000, Big} }
            : b \in BmpBases }

\* the files of test_bmp_24bit, test_bmp_8bit, test_bmp_4bit and test_bmp_1bit
BmpTest(width, height, bpp, color_table, pixel_data) ==
    BmpInput(build_bmp(width, height, bpp, 0, color_table, pixel_data),
             TRUE, width, height, bpp, color_table, pixel_data)

BmpTestInputs ==
    { BmpTest(2, 2, 24, <<>>, <<255, 0, 0, 255, 255, 255, 0, 0, 0, 0, 255, 0, 255, 0, 0, 0>>),
      BmpTest(2, 1, 8, <<<<255, 0, 0, 0>>, <<0, 255, 0, 0>>, <<0, 0, 255, 0>>, <<255, 255, 255, 0>>>>,
              <<2, 0, 0, 0>>),
      BmpTest(3, 1, 4, <<<<0, 0, 0, 0>>, <<255, 255, 255, 0>>>>, <<16, 16, 0, 0>>),
      BmpTest(8, 1, 1, <<<<0, 0, 0, 0>>, <<255, 255, 255, 0>>>>, <<170, 0, 0, 0>>) }

BmpInputs ==
    ValidBmpInputs \cup BmpTestInputs \cup BmpCompressed \cup BmpTruncated \cup BmpSignatures \cup BmpDimensions
    \cup BmpUnknownDepths \cup BmpClrUsedFields \cup BmpHeaderSizes \cup BmpDataOffsets

BmpInit ==
    /\ op = "init"
    /\ inp \in BmpInputs
    /\ out = None
    /\ DecIdle

\* decode_bmp(&data, path_display)
DecodeBmp ==
    /\ op = "init"
    /\ inp.kind = "bmp"
    /\ op' = "decode_bmp"
    /\ out' = decode_bmp(inp.data)
    /\ UNCHANGED <<inp, decVars>>

BmpNext == DecodeBmp

BmpSpec == BmpInit /\ [][BmpNext]_vars

\* ------------------------------------------------------------------------
\* Claims about decode_bmp
\* ------------------------------------------------------------------------

Abs(v) == IF v < 0 THEN -v ELSE v

\* the byte of the file's pixel data at column offset j of the file row that
\* output row y comes from
C11_RowByte(y, j) ==
    LET r == IF inp.height > 0 THEN Abs(inp.height) - 1 - y ELSE y
        stride == ((inp.width * inp.bpp + 31) \div 32) * 4
    IN  inp.pixel_data[r * stride + j + 1]

\* the colour-table index of pixel (x, y) of an 8, 4 or 1 bpp file
C11_Index(x, y) ==
    IF inp.bpp = 8 THEN C11_RowByte(y, x)
    ELSE IF inp.bpp = 4 THEN
        (IF x % 2 = 0 THEN C11_RowByte(y, x \div 2) \div 16 ELSE C11_RowByte(y, x \div 2) % 16)
    ELSE (C11_RowByte(y, x \div 8) \div (2 ^ (7 - (x % 8)))) % 2

\* the pixel's index selects an entry of the colour table
C11_HasEntry(x, y) == inp.bpp > 8 \/ C11_Index(x, y) < Len(inp.color_table)

C11_Expected(x, y) ==
    IF inp.bpp = 24 THEN
        <<C11_RowByte(y, 3 * x + 2), C11_RowByte(y, 3 * x + 1), C11_RowByte(y, 3 * x), 255>>
    ELSE IF inp.bpp = 32 THEN
        <<C11_RowByte(y, 4 * x + 2), C11_RowByte(y, 4 * x + 1), C11_RowByte(y, 4 * x),
          C11_RowByte(y, 4 * x + 3)>>
    ELSE LET e == inp.color_table[C11_Index(x, y) + 1]
         IN  <<e[3], e[2], e[1], 255>>

\* C11: an uncompressed BMP of width w and height field h decodes to a
\* Static w x |h| image whose pixel (x, y) comes from file row |h|-1-y when
\* h > 0 and from row y when h < 0, the rows ((w*bpp+31)/32)*4 bytes apart:
\* [R, G, B, 255] of the BGR triple at 24 bpp, [R, G, B, A] at 32 bpp, and
\* [R, G, B, 255] of the colour-table entry the pixel's index selects at 8, 4
\* (high nibble first) and 1 bpp (most significant bit first).
C11_BmpPixels ==
    (op = "decode_bmp" /\ inp.valid) =>
        /\ IsOk(out)
        /\ out.val.kind = "Static"
        /\ out.val.img.width = inp.width
        /\ out.val.img.height = Abs(inp.height)
        /\ \A x \in 0..(inp.width - 1), y \in 0..(Abs(inp.height) - 1) :
              C11_HasEntry(x, y) => pixel_at(out.val.img, x, y) = C11_Expected(x, y)

\* the file of test_bmp_24bit has been decoded to red, green, blue and white
C11_Witness ==
    /\ op = "decode_bmp"
    /\ inp.data = build_bmp(2, 2, 24, 0, <<>>,
                            <<255, 0, 0, 255, 255, 255, 0, 0, 0, 0, 255, 0, 255, 0, 0, 0>>)
    /\ IsOk(out)
    /\ out.val.img.data = <<255, 0, 0, 255, 0, 255, 0, 255, 0, 0, 255, 255, 255, 255, 255, 255>>

\* the header apart from its compression field: long enough, signed "BM",
\* with dimensions the decoder accepts and a bit depth it knows
C12_HeaderValid ==
    /\ Len(inp.data) >= 54
    /\ SubSeq(inp.data, 1, 2) = <<66, 77>>
    /\ i32_at(inp.data, TRUE, 18).val > 0
    /\ i32_at(inp.data, TRUE, 22).val # 0
    /\ validate_dimensions(i32_at(inp.data, TRUE, 18).val, Abs(i32_at(inp.data, TRUE, 22).val))
    /\ u16_at(inp.data, TRUE, 28).val \in BmpDepths

\* C12: a BMP whose compression field is 1 or 2 and whose header is
\* otherwise valid is never decoded: decode_bmp returns an error that names
\* BI_RLE8 for compression 1 and BI_RLE4 for compression 2, whatever the bit
\* depth and however short the pixel data.
C12_RleRejected ==
    (/\ op = "decode_bmp"
     /\ C12_HeaderValid
     /\ u32_at(inp.data, TRUE, 30).val \in {1, 2})
        => /\ IsErr(out)
           /\ out.msg = IF u32_at(inp.data, TRUE, 30).val = 1
                        THEN "Unsupported BMP compression: BI_RLE8"
                        ELSE "Unsupported BMP compression: BI_RLE4"

\* the header fields the defects are stated in
C13_Width == i32_at(inp.data, TRUE, 18).val
C13_Height == i32_at(inp.data, TRUE, 22).val
C13_Depth == u16_at(inp.data, TRUE, 28).val
C13_ClrUsed == u32_at(inp.data, TRUE, 46).val

\* pixel data shorter than data_offset + row_size * height
C13_PixelsShort ==
    Len(inp.data) < u32_at(inp.data, TRUE, 10).val
                    + ((C13_Width * C13_Depth + 31) \div 32) * 4 * Abs(C13_Height)

\* the colour table (biClrUsed entries at 14 + DIB header size, 0 meaning
\* 2^bpp for the indexed depths) runs past the end of the file
C13_TableShort ==
    LET entries == IF C13_ClrUsed = 0 THEN (IF C13_Depth \in {1, 4, 8} THEN 2 ^ C13_Depth ELSE 0)
                   ELSE C13_ClrUsed
    IN  entries > 0 /\ 14 + u32_at(inp.data, TRUE, 14).val + 4 * entries > Len(inp.data)

\* biClrUsed above 2^bpp
C13_ClrUsedHigh == C13_Depth < 31 /\ C13_ClrUsed > 2 ^ C13_Depth

\* the defects that do not concern the colour table
C13_Malformed ==
    \/ Len(inp.data) < 54
    \/ SubSeq(inp.data, 1, 2) # <<66, 77>>
    \/ C13_Width <= 0
    \/ C13_Height = 0
    \/ ~validate_dimensions(C13_Width, Abs(C13_Height))
    \/ C13_PixelsShort
    \/ C13_Depth \notin BmpDepths

\* C13 as stated: decode_bmp returns Ok or Err for every byte sequence, and
\* a short input, a wrong signature, a non-positive width, a zero height,
\* short pixel data, a colour table running past the end of the file,
\* biClrUsed above 2^bpp or an unknown bit depth each give an Err.
C13_EveryDefectIsAnError ==
    op = "decode_bmp" =>
        /\ out.tag \in {"Ok", "Err"}
        /\ (C13_Malformed \/ C13_TableShort \/ C13_ClrUsedHigh) => IsErr(out)

\* C13 amended: decode_bmp returns Ok or Err for every byte sequence and
\* never indexes outside the input or the output buffer; a short input, a
\* wrong signature, a non-positive width, a zero height, short pixel data or
\* an unknown bit depth give an Err, and so do, at the bit depths 1, 4 and 8
\* that read a colour table, a colour table running past the end of the file
\* and biClrUsed above 2^bpp.
C13_DefectsAreErrors ==
    op = "decode_bmp" =>
        /\ out.tag \in {"Ok", "Err"}
        /\ C13_Malformed => IsErr(out)
        /\ (/\ Len(inp.data) >= 54
            /\ C13_Depth \in {1, 4, 8}
            /\ C13_TableShort \/ C13_ClrUsedHigh) => IsErr(out)

\* a file that lost its last pixel byte has been refused as truncated
C13_Witness ==
    /\ op = "decode_bmp"
    /\ ~inp.valid
    /\ Len(inp.data) >= 54
    /\ C13_PixelsShort
    /\ IsErr(out)
    /\ out.msg = "BMP file truncated"

\* ------------------------------------------------------------------------
\* ReleaseSpec: the handles and buffers of the decoders that drive a native
\* codec library, one step per acquisition, fallible call and release
\* ------------------------------------------------------------------------

\* one step of a decoder that holds native resources
\*   "try"       a call or check whose failure returns Err after releasing
\*               the resources named in cleanup
\*   "acquire"   a library call that hands out the handle res; its failure
\*               returns Err after releasing cleanup
\*   "optional"  a library call that hands out res or null, and null is accepted
\*   "jump"      a libpng call after setjmp: on an error libpng longjmps to the
\*               setjmp block, which releases cleanup and returns Err
\*   "vec"       the decoder creates the Vec res
\*   "release"   the decoder releases the resources named in cleanup
\*   "give"      the Vec named in cleanup is moved into a frame
\*   "begin", "loop"   the frame loop of load_avif
\*   "events"    the JxlDecoderProcessInput loop of load_jxl
\*   "return"    return Ok(call)
R(call, kind, res, cleanup) == [call |-> call, kind |-> kind, res |-> res, cleanup |-> cleanup]

load_png_handles ==
    << R("read_file_limited", "try", "", <<>>),
       R("PNG signature", "try", "", <<>>),
       R("png_create_read_struct", "acquire", "png_ptr", <<>>),
       R("png_create_info_struct", "acquire", "info_ptr", <<"png_ptr">>),
       R("png_set_longjmp_fn", "try", "", <<"png_ptr", "info_ptr">>),
       R("png_read_info", "jump", "", <<"png_ptr", "info_ptr">>),
       R("PNG dimensions", "try", "", <<"png_ptr", "info_ptr">>),
       R("png_read_update_info", "jump", "", <<"png_ptr", "info_ptr">>),
       R("vec![0u8; stride * height]", "vec", "rgba_data", <<>>),
       R("row_ptrs", "vec", "row_ptrs", <<>>),
       R("png_read_image", "jump", "", <<"png_ptr", "info_ptr">>),
       R("png_read_end", "jump", "", <<"png_ptr", "info_ptr">>),
       R("png_destroy_read_struct", "release", "", <<"png_ptr", "info_ptr">>),
       R("Static", "return", "", <<>>) >>

load_webp_handles ==
    << R("read_file_limited", "try", "", <<>>),
       R("WebPGetFeatures", "try", "", <<>>),
       R("WebPDecodeRGBA", "acquire", "ptr", <<>>),
       R("width <= 0 || height <= 0", "try", "", <<"ptr">>),
       R("validate_dimensions", "try", "", <<"ptr">>),
       R("to_vec", "vec", "rgba_data", <<>>),
       R("WebPFree", "release", "", <<"ptr">>),
       R("Static", "return", "", <<>>) >>

load_webp_animated_handles ==
    << R("read_file_limited", "try", "", <<>>),
       R("WebPGetFeatures", "try", "", <<>>),
       R("WebPAnimDecoderOptionsInit", "try", "", <<>>),
       R("WebPAnimDecoderNew", "acquire", "dec", <<>>),
       R("WebPAnimDecoderGetInfo", "try", "", <<"dec">>),
       R("validate_dimensions", "try", "", <<"dec">>),
       R("WebPAnimDecoderDelete", "release", "", <<"dec">>),
       R("frames.is_empty()", "try", "", <<>>),
       R("Animated", "return", "", <<>>) >>

load_gif_handles ==
    << R("DGifOpenFileName", "acquire", "gif", <<>>),
       R("DGifSlurp", "try", "", <<"gif">>),
       R("Empty GIF", "try", "", <<"gif">>),
       R("GIF canvas too large", "try", "", <<"gif">>),
       R("checked_mul", "try", "", <<"gif">>),
       R("vec![0u8; canvas_size]", "vec", "canvas", <<>>),
       R("DGifCloseFile", "release", "", <<"gif">>),
       R("frames.is_empty()", "try", "", <<>>),
       R("Animated", "return", "", <<>>) >>

load_tiff_handles ==
    << R("TIFFOpen", "acquire", "tif", <<>>),
       R("TIFFGetField", "try", "", <<"tif">>),
       R("TIFF dimensions", "try", "", <<"tif">>),
       R("checked_mul", "try", "", <<"tif">>),
       R("vec![0u32; npixels]", "vec", "raster", <<>>),
       R("TIFFClose", "release", "", <<"tif">>),
       R("TIFFReadRGBAImageOriented", "try", "", <<>>),
       R("Static", "return", "", <<>>) >>

load_svg_handles ==
    << R("rsvg_handle_new_from_file", "acquire", "handle", <<>>),
       R("SVG pixel count", "try", "", <<"handle">>),
       R("cairo_image_surface_create", "acquire", "surface", <<"handle">>),
       R("cairo_create", "acquire", "cr", <<"surface", "handle">>),
       R("rsvg_handle_render_document", "try", "", <<"cr", "surface", "handle">>),
       R("Vec::with_capacity", "vec", "rgba", <<>>),
       R("cairo_destroy", "release", "", <<"cr">>),
       R("cairo_surface_destroy", "release", "", <<"surface">>),
       R("g_object_unref", "release", "", <<"handle">>),
       R("Static", "return", "", <<>>) >>

load_avif_handles ==
    << R("read_file_limited", "try", "", <<>>),
       R("avifDecoderCreate", "acquire", "decoder", <<>>),
       R("avifDecoderSetIOMemory", "try", "", <<"decoder">>),
       R("avifDecoderParse", "try", "", <<"decoder">>),
       R("avifDecoderNextImage", "try", "", <<"decoder">>),
       R("avifRGBImageAllocatePixels", "acquire", "rgb.pixels", <<"decoder">>),
       R("avifImageYUVToRGB", "try", "", <<"rgb.pixels", "decoder">>),
       R("validate_dimensions", "try", "", <<"rgb.pixels", "decoder">>),
       R("vec![0u8; pixel_count]", "vec", "pixels", <<>>),
       R("avifRGBImageFreePixels", "release", "", <<"rgb.pixels">>),
       R("avifDecoderDestroy", "release", "", <<"decoder">>),
       R("Static", "return", "", <<>>) >>

load_avif_animated_handles ==
    << R("read_file_limited", "try", "", <<>>),
       R("avifDecoderCreate", "acquire", "decoder", <<>>),
       R("avifDecoderSetIOMemory", "try", "", <<"decoder">>),
       R("avifDecoderParse", "try", "", <<"decoder">>),
       R("for i in 0..image_count", "begin", "", <<>>),
       R("avifDecoderNextImage", "try", "", <<"decoder">>),
       R("avifRGBImageAllocatePixels", "acquire", "rgb.pixels", <<"decoder">>),
       R("avifImageYUVToRGB", "try", "", <<"rgb.pixels", "decoder">>),
       R("validate_dimensions", "try", "", <<"rgb.pixels", "decoder">>),
       R("vec![0u8; pixel_count]", "vec", "pixels", <<>>),
       R("avifRGBImageFreePixels", "release", "", <<"rgb.pixels">>),
       R("frames.push", "give", "", <<"pixels">>),
       R("for i in 0..image_count", "loop", "", <<>>),
       R("avifDecoderDestroy", "release", "", <<"decoder">>),
       R("Animated", "return", "", <<>>) >>

load_heic_handles ==
    << R("read_file_limited", "try", "", <<>>),
       R("heif_context_alloc", "acquire", "ctx", <<>>),
       R("heif_context_read_from_memory_without_copy", "try", "", <<"ctx">>),
       R("heif_context_get_primary_image_handle", "acquire", "handle", <<"ctx">>),
       R("validate_dimensions", "try", "", <<"handle", "ctx">>),
       R("heif_decode_image", "acquire", "img_ptr", <<"handle", "ctx">>),
       R("heif_image_get_plane_readonly", "try", "", <<"img_ptr", "handle", "ctx">>),
       R("vec![0u8; pixel_count]", "vec", "pixels", <<>>),
       R("heif_image_release", "release", "", <<"img_ptr">>),
       R("heif_image_handle_release", "release", "", <<"handle">>),
       R("heif_context_free", "release", "", <<"ctx">>),
       R("Static", "return", "", <<>>) >>

\* cleanup_jxl(dec, runner): the decoder, and the runner when it is not null
cleanup_jxl == <<"dec", "runner">>

load_jxl_handles ==
    << R("read_file_limited", "try", "", <<>>),
       R("JxlDecoderCreate", "acquire", "dec", <<>>),
       R("JxlThreadParallelRunnerCreate", "optional", "runner", <<>>),
       R("JxlDecoderSubscribeEvents", "try", "", cleanup_jxl),
       R("JxlDecoderSetInput", "try", "", cleanup_jxl),
       R("loop JxlDecoderProcessInput", "events", "", <<>>),
       R("cleanup_jxl", "release", "", cleanup_jxl),
       R("is_animated && !frames.is_empty()", "try", "", <<>>),
       R("Animated", "return", "", <<>>) >>

Handles(d) ==
    CASE d = "png" -> load_png_handles
      [] d = "webp" -> load_webp_handles
      [] d = "webp_animated" -> load_webp_animated_handles
      [] d = "gif" -> load_gif_handles
      [] d = "tiff" -> load_tiff_handles
      [] d = "svg" -> load_svg_handles
      [] d = "avif" -> load_avif_handles
      [] d = "avif_animated" -> load_avif_animated_handles
      [] d = "heic" -> load_heic_handles
      [] d = "jxl" -> load_jxl_handles
      [] OTHER -> <<>>

\* the Vecs of the decoders: Rust drops or moves them at every return
RustOwned == <<"rgba_data", "row_ptrs", "canvas", "raster", "rgba", "pixels", "current_buffer">>

\* released only behind a null check
NullChecked == {"runner"}

\* how many times res is held according to the events so far
held(sq, res) ==
    Cardinality({i \in 1..Len(sq) : sq[i] = S(res, "acquire")})
    - Cardinality({i \in 1..Len(sq) : sq[i] = S(res, "release")})

\* the release calls of a cleanup, in order
RECURSIVE release_all(_, _)
release_all(sq, cleanup) ==
    IF cleanup = <<>> THEN sq
    ELSE IF Head(cleanup) \in NullChecked /\ held(sq, Head(cleanup)) = 0
         THEN release_all(sq, Tail(cleanup))
         ELSE release_all(Append(sq, S(Head(cleanup), "release")), Tail(cleanup))

\* what leaving the function through a Rust return does to its Vecs
RECURSIVE drop_all(_, _)
drop_all(sq, owned) ==
    IF owned = <<>> THEN sq
    ELSE IF held(sq, Head(owned)) > 0
         THEN drop_all(Append(sq, S(Head(owned), "release")), Tail(owned))
         ELSE drop_all(sq, Tail(owned))

\* return Err(..) after the explicit releases of the error branch
error_return(sq, cleanup) == drop_all(release_all(sq, cleanup), RustOwned)

\* the setjmp block after a longjmp: only what the block releases itself
longjmp_return(sq, cleanup) == release_all(sq, cleanup)

\* the step with the loop header
BeginOf(table) == CHOOSE i \in 1..Len(table) : table[i].kind = "begin"

\* most passes of the JxlDecoderProcessInput loop a run makes
MaxEvents == 4

ReleaseFiles ==
    [entry : {"load_image"},
     ext : {"png", "webp", "gif", "tiff", "svg", "avif", "heic", "jxl"},
     size : {4096},
     dims : {<<2, 3>>},
     animated : BOOLEAN,
     count : 1..MaxFrames]

Step == Handles(fmt)[pc]
Stepping == result = "none" /\ pc \in 1..Len(Handles(fmt))
StepIs(kind) == Stepping /\ Step.kind = kind

ReleaseInit ==
    /\ PureIdle
    /\ file \in ReleaseFiles
    /\ fmt = "none"
    /\ pc = 0
    /\ bytes_read = 0
    /\ dims = <<0, 0>>
    /\ log = <<>>
    /\ idx = 0
    /\ frames = 0
    /\ result = "none"

\* return Err(..): the releases written in the error branch, then the drops
ErrorReturn(cleanup) ==
    /\ log' = error_return(log, cleanup)
    /\ result' = "Err"
    /\ pc' = 0

\* load_image(path): the match on the extension
LoadWithHandles ==
    /\ fmt = "none"
    /\ result = "none"
    /\ fmt' = Decoder(file)
    /\ pc' = 1
    /\ UNCHANGED <<pureVars, file, bytes_read, dims, log, idx, frames, result>>

\* a fallible call or check and its error branch
TryCall ==
    /\ StepIs("try")
    /\ \/ pc' = pc + 1 /\ UNCHANGED <<log, result>>
       \/ ErrorReturn(Step.cleanup)
    /\ UNCHANGED <<pureVars, file, fmt, bytes_read, dims, idx, frames>>

\* a library call that hands out a handle, or fails
AcquireHandle ==
    /\ StepIs("acquire")
    /\ \/ /\ log' = Append(log, S(Step.res, "acquire"))
          /\ pc' = pc + 1
          /\ UNCHANGED result
       \/ ErrorReturn(Step.cleanup)
    /\ UNCHANGED <<pureVars, file, fmt, bytes_read, dims, idx, frames>>

\* JxlThreadParallelRunnerCreate: a runner, or null and the decoder goes on
AcquireOptional ==
    /\ StepIs("optional")
    /\ \/ log' = Append(log, S(Step.res, "acquire"))
       \/ UNCHANGED log
    /\ pc' = pc + 1
    /\ UNCHANGED <<pureVars, file, fmt, bytes_read, dims, idx, frames, result>>

\* a libpng call after setjmp: it returns, or libpng longjmps to the setjmp
\* block
LongjmpCall ==
    /\ StepIs("jump")
    /\ \/ pc' = pc + 1 /\ UNCHANGED <<log, result>>
       \/ /\ log' = longjmp_return(log, Step.cleanup)
          /\ result' = "Err"
          /\ pc' = 0
    /\ UNCHANGED <<pureVars, file, fmt, bytes_read, dims, idx, frames>>

\* vec![0; n], to_vec, Vec::with_capacity
CreateVec ==
    /\ StepIs("vec")
    /\ log' = Append(log, S(Step.res, "acquire"))
    /\ pc' = pc + 1
    /\ UNCHANGED <<pureVars, file, fmt, bytes_read, dims, idx, frames, result>>

\* a release call on the straight path, or a Vec moved into a frame
ReleaseHandles ==
    /\ StepIs("release") \/ StepIs("give")
    /\ log' = release_all(log, Step.cleanup)
    /\ pc' = pc + 1
    /\ UNCHANGED <<pureVars, file, fmt, bytes_read, dims, idx, frames, result>>

\* for i in 0..image_count
BeginLoop ==
    /\ StepIs("begin")
    /\ idx' = 0
    /\ pc' = pc + 1
    /\ UNCHANGED <<pureVars, file, fmt, bytes_read, dims, log, frames, result>>

NextPass ==
    /\ StepIs("loop")
    /\ IF idx + 1 < file.count
       THEN idx' = idx + 1 /\ pc' = BeginOf(Handles(fmt)) + 1
       ELSE idx' = idx /\ pc' = pc + 1
    /\ UNCHANGED <<pureVars, file, fmt, bytes_read, dims, log, frames, result>>

\* current_buffer = vec![0u8; buf_size]: the old buffer is dropped
new_current_buffer(sq) ==
    Append(drop_all(sq, <<"current_buffer">>), S("current_buffer", "acquire"))

\* load_jxl: one JxlDecoderProcessInput and the match on its status
JxlEvent ==
    /\ StepIs("events")
    /\ \E status \in JxlStatuses \cup {"JXL_DEC_NEED_IMAGE_OUT_BUFFER"} :
        \/ /\ status \in {"JXL_DEC_BASIC_INFO", "JXL_DEC_FRAME", "JXL_DEC_NEED_IMAGE_OUT_BUFFER"}
           /\ idx < MaxEvents
           /\ \/ \* JxlDecoderGetBasicInfo, validate_dimensions or
                 \* JxlDecoderImageOutBufferSize failed
                 /\ ErrorReturn(cleanup_jxl)
                 /\ UNCHANGED idx
              \/ /\ status = "JXL_DEC_BASIC_INFO"
                 /\ idx' = idx + 1
                 /\ UNCHANGED <<log, pc, result>>
              \/ \* the buffer is created and JxlDecoderSetImageOutBuffer takes it
                 /\ status = "JXL_DEC_FRAME"
                 /\ log' = new_current_buffer(log)
                 /\ idx' = idx + 1
                 /\ UNCHANGED <<pc, result>>
              \/ \* the buffer is created and JxlDecoderSetImageOutBuffer fails
                 /\ status = "JXL_DEC_FRAME"
                 /\ log' = error_return(new_current_buffer(log), cleanup_jxl)
                 /\ result' = "Err"
                 /\ pc' = 0
                 /\ UNCHANGED idx
              \/ /\ status = "JXL_DEC_NEED_IMAGE_OUT_BUFFER"
                 /\ log' = IF held(log, "current_buffer") = 0 THEN new_current_buffer(log) ELSE log
                 /\ idx' = idx + 1
                 /\ UNCHANGED <<pc, result>>
              \/ /\ status = "JXL_DEC_NEED_IMAGE_OUT_BUFFER"
                 /\ log' = error_return(IF held(log, "current_buffer") = 0
                                        THEN new_current_buffer(log) ELSE log, cleanup_jxl)
                 /\ result' = "Err"
                 /\ pc' = 0
                 /\ UNCHANGED idx
        \/ \* std::mem::take(&mut current_buffer) goes into the image
           /\ status = "JXL_DEC_FULL_IMAGE"
           /\ idx < MaxEvents
           /\ held(log, "current_buffer") > 0
           /\ IF file.animated
              THEN /\ log' = release_all(log, <<"current_buffer">>)
                   /\ idx' = idx + 1
                   /\ UNCHANGED <<pc, result>>
              ELSE /\ log' = drop_all(release_all(log, <<"current_buffer">> \o cleanup_jxl), RustOwned)
                   /\ result' = "Static"
                   /\ pc' = 0
                   /\ UNCHANGED idx
        \/ /\ status \in {"JXL_DEC_SUCCESS", "JXL_DEC_NEED_MORE_INPUT"}
           /\ pc' = pc + 1
           /\ UNCHANGED <<log, idx, result>>
        \/ /\ status = "JXL_DEC_ERROR"
           /\ ErrorReturn(cleanup_jxl)
           /\ UNCHANGED idx
    /\ UNCHANGED <<pureVars, file, fmt, bytes_read, dims, frames>>

\* return Ok(..): the Vecs are moved into the image or dropped
ReturnOk ==
    /\ StepIs("return")
    /\ log' = drop_all(log, RustOwned)
    /\ result' = Step.call
    /\ pc' = 0
    /\ UNCHANGED <<pureVars, file, fmt, bytes_read, dims, idx, frames>>

ReleaseNext ==
    \/ LoadWithHandles
    \/ TryCall
    \/ AcquireHandle
    \/ AcquireOptional
    \/ LongjmpCall
    \/ CreateVec
    \/ ReleaseHandles
    \/ BeginLoop
    \/ NextPass
    \/ JxlEvent
    \/ ReturnOk

ReleaseSpec == ReleaseInit /\ [][ReleaseNext]_vars

\* every handle and buffer a decoder can hold
Resources ==
    {"png_ptr", "info_ptr", "ptr", "dec", "gif", "tif", "handle", "surface", "cr", "decoder",
     "rgb.pixels", "ctx", "img_ptr", "runner"}
    \cup {RustOwned[i] : i \in 1..Len(RustOwned)}

\* C14: in every decoder that drives a native codec library, each handle or
\* buffer acquired is released exactly once on every exit path, the normal
\* return, every early error return and the libpng longjmp path: nothing is
\* released that is not held, and nothing is held once the decoder has
\* returned.
C14_ReleasedExactlyOnce ==
    \A res \in Resources :
        /\ held(log, res) \in {0, 1}
        /\ result # "none" => held(log, res) = 0

\* ------------------------------------------------------------------------
\* AnimSpec: the frames and durations of the animated formats
\* ------------------------------------------------------------------------

\* DGifSavedExtensionToGCB(gif, i, &mut gcb): the graphics control block of
\* image i, or the defaults (no delay, no transparent colour) when it has none
DGifSavedExtensionToGCB(saved) ==
    IF IsSome(saved.gcb) THEN saved.gcb.val
    ELSE [DelayTime |-> 0, TransparentColor |-> -1]

\* cmap: the local colour map, else the global one (None for null)
gif_cmap(gif, saved) ==
    IF IsSome(saved.ColorMap) THEN saved.ColorMap ELSE gif.SColorMap

\* a compositor that erases a transparent pixel to the empty background
gif_draw_pixel_erasing(canvas, canvas_w, canvas_h, saved, colors, transparent, src_idx) ==
    LET fw == saved.Width
        col == src_idx % fw
        row == src_idx \div fw
        pixel_idx == saved.RasterBits.val[src_idx + 1]
        dx == saved.Left + col
        dy == saved.Top + row
        dst == (dy * canvas_w + dx) * 4
    IN  IF dx >= canvas_w \/ dy >= canvas_h THEN canvas
        ELSE IF pixel_idx = transparent THEN
            [i \in 1..Len(canvas) |-> IF i \in (dst + 1)..(dst + 4) THEN 0 ELSE canvas[i]]
        ELSE IF pixel_idx < Len(colors) THEN
            [i \in 1..Len(canvas) |->
                IF i = dst + 1 THEN colors[pixel_idx + 1][1]
                ELSE IF i = dst + 2 THEN colors[pixel_idx + 1][2]
                ELSE IF i = dst + 3 THEN colors[pixel_idx + 1][3]
                ELSE IF i = dst + 4 THEN 255
                ELSE canvas[i]]
        ELSE canvas

\* the body of the loops over row and col for the frame pixel src_idx
gif_draw_pixel(canvas, canvas_w, canvas_h, saved, colors, transparent, src_idx) ==
    LET fw == saved.Width
        col == src_idx % fw
        row == src_idx \div fw
        pixel_idx == saved.RasterBits.val[src_idx + 1]
        dx == saved.Left + col
        dy == saved.Top + row
        dst == (dy * canvas_w + dx) * 4
    IN  IF dx >= canvas_w \/ dy >= canvas_h THEN canvas
        ELSE IF pixel_idx = transparent THEN canvas
        ELSE IF pixel_idx < Len(colors) THEN
            [i \in 1..Len(canvas) |->
                IF i = dst + 1 THEN colors[pixel_idx + 1][1]
                ELSE IF i = dst + 2 THEN colors[pixel_idx + 1][2]
                ELSE IF i = dst + 3 THEN colors[pixel_idx + 1][3]
                ELSE IF i = dst + 4 THEN 255
                ELSE canvas[i]]
        ELSE canvas

\* for row in 0..fh { for col in 0..fw { .. } }, from frame pixel src_idx on
RECURSIVE gif_composite(_, _, _, _, _, _, _)
gif_composite(canvas, canvas_w, canvas_h, saved, colors, transparent, src_idx) ==
    IF src_idx >= saved.Width * saved.Height THEN canvas
    ELSE gif_composite(gif_draw_pixel(canvas, canvas_w, canvas_h, saved, colors, transparent, src_idx),
                       canvas_w, canvas_h, saved, colors, transparent, src_idx + 1)

\* a delay taken for milliseconds as it is
gif_delay_ms_unscaled(DelayTime) == Max(DelayTime, 10)

\* delay_ms = ((gcb.DelayTime as u64) * 10).max(10)
gif_delay_ms(DelayTime) == Max(DelayTime * 10, 10)

\* (RgbaImage, Duration)
Frame(data, width, height, duration) ==
    [img |-> RgbaImage(data, width, height), duration |-> duration]

\* the state of load_gif between two passes of its frame loop
GifLoop(canvas, frames_so_far, i) == [canvas |-> canvas, frames |-> frames_so_far, i |-> i]

\* one pass of for i in 0..image_count
gif_frame(gif, st) ==
    LET saved == gif.SavedImages[st.i + 1]
        cmap == gif_cmap(gif, saved)
        gcb == DGifSavedExtensionToGCB(saved)
        canvas == gif_composite(st.canvas, gif.SWidth, gif.SHeight, saved, cmap.val,
                                gcb.TransparentColor, 0)
    IN  IF ~IsSome(cmap) \/ ~IsSome(saved.RasterBits) THEN GifLoop(st.canvas, st.frames, st.i + 1)
        ELSE GifLoop(canvas,
                     Append(st.frames, Frame(canvas, gif.SWidth, gif.SHeight,
                                             gif_delay_ms(gcb.DelayTime))),
                     st.i + 1)

\* Err, Ok(Static(img)) or Ok(Animated { frames }) after a frame loop
frames_result(frames_so_far) ==
    IF frames_so_far = <<>> THEN Err("No frames decoded")
    ELSE IF Len(frames_so_far) = 1 THEN Ok(Static(frames_so_far[1].img))
    ELSE Ok([kind |-> "Animated", frames |-> frames_so_far])

\* load_gif after DGifSlurp: the checks of the canvas, then the frame loop's
\* first state
gif_begin(gif) ==
    IF Len(gif.SavedImages) = 0 \/ gif.SWidth = 0 \/ gif.SHeight = 0 THEN Err("Empty GIF")
    ELSE IF gif.SWidth * gif.SHeight > MAX_PIXEL_COUNT THEN Err("GIF canvas too large")
    ELSE Ok(GifLoop(Zeros(gif.SWidth * gif.SHeight * 4), <<>>, 0))

\* a frame delay that is the cumulative timestamp itself
webp_delay_ms_cumulative(timestamp, prev_timestamp) == Max(timestamp, 10)

\* delay_ms = ((timestamp - prev_timestamp) as u64).max(10); a negative
\* difference wraps to a value near 2^64, clamped here to Big
webp_delay_ms(timestamp, prev_timestamp) ==
    IF timestamp - prev_timestamp < 0 THEN Big
    ELSE Max(timestamp - prev_timestamp, 10)

\* while WebPAnimDecoderHasMoreFrames(dec) != 0 { .. }, from frame k on
RECURSIVE webp_frames(_, _, _, _)
webp_frames(anim, k, prev_timestamp, frames_so_far) ==
    IF k > Len(anim.frames) THEN frames_so_far
    ELSE IF ~anim.frames[k].ok THEN frames_so_far
    ELSE webp_frames(anim, k + 1, anim.frames[k].timestamp,
                     Append(frames_so_far,
                            Frame(anim.frames[k].buf, anim.canvas_width, anim.canvas_height,
                                  webp_delay_ms(anim.frames[k].timestamp, prev_timestamp))))

\* load_webp_animated once the decoder exists and its canvas is validated
webp_animated_result(anim) == frames_result(webp_frames(anim, 1, 0, <<>>))

\* (timing.duration * 1000.0) as u64, timing.duration being
\* duration_in_timescales / timescale seconds
avif_duration_ms(timing) == (timing.duration_in_timescales * 1000) \div timing.timescale

\* for i in 0..image_count { .. } of the animated branch of load_avif
RECURSIVE avif_frames(_, _, _)
avif_frames(avif, k, frames_so_far) ==
    IF k > Len(avif.images) THEN Ok(frames_so_far)
    ELSE IF ~avif.images[k].ok THEN Err("Failed to decode AVIF frame")
    ELSE avif_frames(avif, k + 1,
                     Append(frames_so_far,
                            Frame(avif.images[k].pixels, avif.width, avif.height,
                                  Max(avif_duration_ms(avif.images[k].timing), 10))))

\* the animated branch of load_avif (image_count > 1)
avif_animated_result(avif) ==
    LET fr == avif_frames(avif, 1, <<>>)
    IN  IF IsErr(fr) THEN fr
        ELSE IF fr.val = <<>> THEN Err("AVIF contains no frames")
        ELSE Ok([kind |-> "Animated", frames |-> fr.val])

\* duration_ms of a JXL frame: duration ticks of tps_den / tps_num seconds,
\* 0.1 s when the numerator is 0
jxl_duration_ms(duration, tps_numerator, tps_denominator) ==
    IF tps_numerator > 0 THEN (duration * tps_denominator * 1000) \div tps_numerator
    ELSE 100

\* the frames an animated JXL leaves: a duration at each FRAME event, the
\* pixels at the FULL_IMAGE event that follows it
RECURSIVE jxl_frames(_, _, _)
jxl_frames(jxl, k, frames_so_far) ==
    IF k > Len(jxl.frames) THEN frames_so_far
    ELSE jxl_frames(jxl, k + 1,
                    Append(frames_so_far,
                           Frame(jxl.frames[k].pixels, jxl.xsize, jxl.ysize,
                                 Max(jxl_duration_ms(jxl.frames[k].duration,
                                                     jxl.tps_numerator, jxl.tps_denominator),
                                     10))))

\* the end of load_jxl for an animated file (orientation 1)
jxl_animated_result(jxl) ==
    IF jxl_frames(jxl, 1, <<>>) # <<>>
    THEN Ok([kind |-> "Animated", frames |-> jxl_frames(jxl, 1, <<>>)])
    ELSE Err("JXL contains no frames")

\* GIF files as DGifSlurp leaves them: a 2x2 or 2x1 canvas, a global colour
\* map of two colours or none, one to three images
GifGlobalMap == << <<10, 20, 30>>, <<40, 50, 60>> >>

GifLocalMap == << <<70, 80, 90>> >>

\* <<Left, Top, Width, Height>>; giflib reads each as an unsigned 16-bit word
GifRects ==
    { <<0, 0, 2, 2>>, <<1, 1, 2, 2>>, <<1, 0, 1, 2>>, <<0, 1, 2, 1>>,
      <<2, 0, 1, 1>>, <<65535, 65535, 1, 1>> }

GifRasters(n) ==
    IF n = 4 THEN { <<0, 1, 1, 0>>, <<1, 0, 2, 1>>, <<1, 1, 1, 1>> }
    ELSE IF n = 2 THEN { <<0, 1>>, <<1, 2>> }
    ELSE { <<0>>, <<1>> }

GifBlocks ==
    { None,
      Some([DelayTime |-> 0, TransparentColor |-> -1]),
      Some([DelayTime |-> 1, TransparentColor |-> 0]),
      Some([DelayTime |-> 5, TransparentColor |-> 1]),
      Some([DelayTime |-> 65535, TransparentColor |-> 0]) }

SavedImage(rect, ColorMap, RasterBits, gcb) ==
    [Left |-> rect[1], Top |-> rect[2], Width |-> rect[3], Height |-> rect[4],
     ColorMap |-> ColorMap, RasterBits |-> RasterBits, gcb |-> gcb]

GifImages ==
    UNION { { SavedImage(rect, cm, Some(rb), gcb) :
                cm \in {None, Some(GifLocalMap)}, rb \in GifRasters(rect[3] * rect[4]),
                gcb \in GifBlocks } : rect \in GifRects }
    \cup { SavedImage(<<0, 0, 2, 2>>, None, None, gcb) : gcb \in GifBlocks }

GifFirstImages ==
    { SavedImage(<<0, 0, 2, 2>>, None, Some(rb), gcb) :
        rb \in GifRasters(4), gcb \in {None, Some([DelayTime |-> 7, TransparentColor |-> 1])} }
    \cup { SavedImage(<<1, 0, 1, 2>>, Some(GifLocalMap), Some(<<0, 0>>), None),
           SavedImage(<<0, 0, 2, 2>>, None, None, None) }

GifFile(SWidth, SHeight, SColorMap, SavedImages) ==
    [kind |-> "gif", SWidth |-> SWidth, SHeight |-> SHeight, SColorMap |-> SColorMap,
     SavedImages |-> SavedImages]

GifFiles ==
    { GifFile(2, 2, Some(GifGlobalMap), <<a, b>>) : a \in GifFirstImages, b \in GifImages }
    \cup { GifFile(2, 1, sm, <<a>>) : sm \in {None, Some(GifGlobalMap)}, a \in GifImages }
    \cup { GifFile(2, 2, Some(GifGlobalMap), <<a, b, a>>) :
             a \in GifFirstImages, b \in { SavedImage(<<1, 1, 2, 2>>, None, Some(<<0, 1, 1, 0>>), g) :
                                             g \in GifBlocks } }
    \cup { GifFile(w, 2, None, sq) :
             w \in {0, 2}, sq \in { <<>>, <<SavedImage(<<0, 0, 1, 1>>, None, Some(<<0>>), None)>> } }

\* animated WebP files as WebPAnimDecoder presents them: a 1x1 canvas and,
\* per frame, the canvas and the cumulative timestamp in ms at its end
WebpTimestamps ==
    { <<100>>, <<0, 0>>, <<40, 80>>, <<5, 100>>, <<100, 105>>, <<30, 30, 200>>,
      <<10, 19, 29>>, <<1000, 3000, 3001>>, <<7, 14, 21>> }

WebpAnimations ==
    { [kind |-> "webp", canvas_width |-> 1, canvas_height |-> 1,
       frames |-> [k \in 1..Len(ts) |->
                     [ok |-> k # bad, buf |-> <<k, k, k, 255>>, timestamp |-> ts[k]]]] :
        ts \in WebpTimestamps, bad \in 0..3 }

\* animated AVIF files as libavif presents them: per image, its timing in
\* units of 1/timescale s, pts_in_timescales being the sum of the durations
\* before it
AvifDurations ==
    { <<1, 1>>, <<100, 200>>, <<0, 50>>, <<5, 5, 5>>, <<40, 40, 40>>, <<9, 10, 11>>,
      <<1000, 1>>, <<33, 34>> }

AvifTimescales == {1, 3, 30, 1000, 90000}

RECURSIVE SumTo(_, _)
SumTo(sq, k) == IF k = 0 THEN 0 ELSE sq[k] + SumTo(sq, k - 1)

AvifAnimations ==
    { [kind |-> "avif", width |-> 1, height |-> 1,
       images |-> [k \in 1..Len(ds) |->
                     [ok |-> k # bad, pixels |-> <<k, k, k, 255>>,
                      timing |-> [timescale |-> tsc, pts_in_timescales |-> SumTo(ds, k - 1),
                                  duration_in_timescales |-> ds[k]]]]] :
        ds \in AvifDurations, tsc \in AvifTimescales, bad \in {0, 2} }

\* animated JXL files as libjxl presents them: the ticks-per-second fraction
\* of the basic info and the duration in ticks of each frame header
JxlDurations == { <<>>, <<0>>, <<1, 1>>, <<3, 0, 7>>, <<100, 200>>, <<10, 9>>, <<1, 2, 3>> }

JxlTicks == { <<0, 1>>, <<1, 1>>, <<10, 1>>, <<100, 1>>, <<1000, 1>>, <<30, 1>>, <<24000, 1001>>, <<3, 2>> }

JxlAnimations ==
    { [kind |-> "jxl", xsize |-> 1, ysize |-> 1,
       tps_numerator |-> t[1], tps_denominator |-> t[2],
       frames |-> [k \in 1..Len(ds) |-> [pixels |-> <<k, k, k, 255>>, duration |-> ds[k]]]] :
        ds \in JxlDurations, t \in JxlTicks }

AnimInit ==
    /\ op = "init"
    /\ inp \in GifFiles \cup WebpAnimations \cup AvifAnimations \cup JxlAnimations
    /\ out = None
    /\ DecIdle

\* load_gif up to its frame loop
GifSlurp ==
    /\ op = "init"
    /\ inp.kind = "gif"
    /\ IF IsErr(gif_begin(inp))
       THEN op' = "load_gif" /\ out' = gif_begin(inp)
       ELSE op' = "gif_frames" /\ out' = gif_begin(inp).val
    /\ UNCHANGED <<inp, decVars>>

\* one pass of the frame loop of load_gif
GifFrame ==
    /\ op = "gif_frames"
    /\ out.i < Len(inp.SavedImages)
    /\ out' = gif_frame(inp, out)
    /\ UNCHANGED <<op, inp, decVars>>

\* load_gif after its frame loop
GifReturn ==
    /\ op = "gif_frames"
    /\ out.i = Len(inp.SavedImages)
    /\ op' = "load_gif"
    /\ out' = frames_result(out.frames)
    /\ UNCHANGED <<inp, decVars>>

LoadWebpAnimated ==
    /\ op = "init"
    /\ inp.kind = "webp"
    /\ op' = "load_webp_animated"
    /\ out' = webp_animated_result(inp)
    /\ UNCHANGED <<inp, decVars>>

LoadAvifAnimated ==
    /\ op = "init"
    /\ inp.kind = "avif"
    /\ op' = "load_avif"
    /\ out' = avif_animated_result(inp)
    /\ UNCHANGED <<inp, decVars>>

LoadJxlAnimated ==
    /\ op = "init"
    /\ inp.kind = "jxl"
    /\ op' = "load_jxl"
    /\ out' = jxl_animated_result(inp)
    /\ UNCHANGED <<inp, decVars>>

AnimNext ==
    \/ GifSlurp
    \/ GifFrame
    \/ GifReturn
    \/ LoadWebpAnimated
    \/ LoadAvifAnimated
    \/ LoadJxlAnimated

AnimSpec == AnimInit /\ [][AnimNext]_vars

\* image j of the file (counted from 1) has a colour map and pixel data, so
\* the frame loop draws it and pushes a frame
C15_Pushed(j) ==
    /\ IsSome(gif_cmap(inp, inp.SavedImages[j]))
    /\ IsSome(inp.SavedImages[j].RasterBits)

\* the position among the output frames of the frame of image j
C15_Rank(j) == Cardinality({ k \in 1..j : C15_Pushed(k) })

\* the frames of a GIF so far: in the frame loop or in an animated result
C15_Frames ==
    IF inp.kind = "gif" /\ op = "gif_frames" THEN out.frames
    ELSE IF inp.kind = "gif" /\ op = "load_gif" /\ IsOk(out) /\ out.val.kind = "Animated"
    THEN out.val.frames
    ELSE <<>>

\* the images whose frame is among C15_Frames
C15_Drawn ==
    IF inp.kind # "gif" THEN {}
    ELSE { j \in 1..Len(inp.SavedImages) : C15_Pushed(j) /\ C15_Rank(j) <= Len(C15_Frames) }

\* canvas pixel (x, y) lies inside the rectangle of image j
C15_Covers(j, x, y) ==
    /\ x - inp.SavedImages[j].Left \in 0..(inp.SavedImages[j].Width - 1)
    /\ y - inp.SavedImages[j].Top \in 0..(inp.SavedImages[j].Height - 1)

\* the colour index image j holds for canvas pixel (x, y)
C15_Index(j, x, y) ==
    inp.SavedImages[j].RasterBits.val[(y - inp.SavedImages[j].Top) * inp.SavedImages[j].Width
                                      + (x - inp.SavedImages[j].Left) + 1]

\* the transparent index of image j, -1 when it has none
C15_TransparentIndex(j) ==
    IF IsSome(inp.SavedImages[j].gcb) THEN inp.SavedImages[j].gcb.val.TransparentColor ELSE -1

\* C15: every GIF frame is a whole canvas of SWidth x SHeight pixels, also
\* when the image's rectangle reaches outside the canvas; in the second and
\* later frames, a pixel outside the image's rectangle, and a pixel the image
\* gives its transparent index, is the pixel of the frame before; a pixel the
\* image gives another index of its colour map is that colour, opaque
C15_PersistentCanvas ==
    \A j \in C15_Drawn :
        LET f == C15_Frames[C15_Rank(j)].img
            colors == gif_cmap(inp, inp.SavedImages[j]).val
        IN  /\ f.width = inp.SWidth
            /\ f.height = inp.SHeight
            /\ Len(f.data) = inp.SWidth * inp.SHeight * 4
            /\ \A x \in 0..(inp.SWidth - 1), y \in 0..(inp.SHeight - 1) :
                  /\ (/\ C15_Rank(j) >= 2
                      /\ ~C15_Covers(j, x, y) \/ C15_Index(j, x, y) = C15_TransparentIndex(j))
                     => pixel_at(f, x, y) = pixel_at(C15_Frames[C15_Rank(j) - 1].img, x, y)
                  /\ (/\ C15_Covers(j, x, y)
                      /\ C15_Index(j, x, y) # C15_TransparentIndex(j)
                      /\ C15_Index(j, x, y) < Len(colors))
                     => pixel_at(f, x, y) = colors[C15_Index(j, x, y) + 1] \o <<255>>

\* a two-frame animation has been returned whose second image, placed at
\* (1, 1) and two pixels wide and high, has index 0 transparent: its one pixel
\* on the canvas shows the first frame's colour, the other three are dropped
C15_Witness ==
    /\ op = "load_gif"
    /\ inp.kind = "gif"
    /\ Len(inp.SavedImages) = 2
    /\ inp.SavedImages[1].RasterBits = Some(<<1, 1, 1, 1>>)
    /\ inp.SavedImages[1].gcb = None
    /\ inp.SavedImages[2] = SavedImage(<<1, 1, 2, 2>>, None, Some(<<0, 1, 1, 0>>),
                                       Some([DelayTime |-> 1, TransparentColor |-> 0]))
    /\ IsOk(out)
    /\ out.val.kind = "Animated"
    /\ Len(out.val.frames) = 2
    /\ pixel_at(out.val.frames[2].img, 1, 1) = <<40, 50, 60, 255>>
    /\ out.val.frames[2].img = out.val.frames[1].img

\* the delay in hundredths of a second of image j, 0 without a graphics
\* control extension
C16_DelayCs(j) ==
    IF IsSome(inp.SavedImages[j].gcb) THEN inp.SavedImages[j].gcb.val.DelayTime ELSE 0

\* C16: every frame of an Animated result of load_gif, load_webp_animated,
\* load_avif or load_jxl lasts at least 10 ms, and the frame of a GIF image
\* lasts max(delay_cs * 10, 10) ms
C16_DurationFloor ==
    /\ (/\ op \in {"load_gif", "load_webp_animated", "load_avif", "load_jxl"}
        /\ IsOk(out)
        /\ out.val.kind = "Animated")
       => \A k \in 1..Len(out.val.frames) : out.val.frames[k].duration >= 10
    /\ \A j \in C15_Drawn :
          C15_Frames[C15_Rank(j)].duration = Max(C16_DelayCs(j) * 10, 10)

\* a GIF animation has been returned whose first image has no graphics
\* control extension and lasts 10 ms, and whose second has a delay of 5 and
\* lasts 50 ms
C16_Witness ==
    /\ op = "load_gif"
    /\ inp.kind = "gif"
    /\ IsOk(out)
    /\ out.val.kind = "Animated"
    /\ inp.SavedImages[1].gcb = None
    /\ inp.SavedImages[2].gcb = Some([DelayTime |-> 5, TransparentColor |-> 1])
    /\ out.val.frames[1].duration = 10
    /\ out.val.frames[2].duration = 50

\* an Animated result of one of the three decoders of C17
C17_Animated(call) ==
    /\ op = call
    /\ IsOk(out)
    /\ out.val.kind = "Animated"

\* the cumulative timestamp in ms of WebP frame k, 0 before the first
C17_WebpTimestamp(k) == IF k = 0 THEN 0 ELSE inp.frames[k].timestamp

\* d is q truncated to whole ms and floored at 10 ms, q being num / den ms
C17_IsFlooredMs(d, num, den) ==
    IF num >= 10 * den THEN d * den <= num /\ num < (d + 1) * den ELSE d = 10

\* the presentation timestamp in ms of AVIF image k, 0 before the first
C17_AvifPts(k) ==
    IF k = 0 THEN 0
    ELSE (inp.images[k].timing.pts_in_timescales * 1000) \div inp.images[k].timing.timescale

\* the timestamp in ms of the end of AVIF image k, 0 before the first
C17_AvifEnd(k) ==
    IF k = 0 THEN 0
    ELSE ((inp.images[k].timing.pts_in_timescales + inp.images[k].timing.duration_in_timescales)
          * 1000) \div inp.images[k].timing.timescale

\* the duration in ticks of the JXL frames up to frame k
RECURSIVE C17_JxlTicksTo(_)
C17_JxlTicksTo(k) == IF k = 0 THEN 0 ELSE inp.frames[k].duration + C17_JxlTicksTo(k - 1)

\* the timestamp in ms of the end of JXL frame k, 0 before the first
C17_JxlEnd(k) == (C17_JxlTicksTo(k) * inp.tps_denominator * 1000) \div inp.tps_numerator

ext_jpg == <<106, 112, 103>>

\* "jpeg"
ext_jpeg == <<106, 112, 101, 103>>

\* "png"
ext_png == <<112, 110, 103>>

\* "gif"
ext_gif == <<103, 105, 102>>

\* "webp"
ext_webp == <<119, 101, 98, 112>>

\* "bmp"
ext_bmp == <<98, 109, 112>>

\* "tiff"
ext_tiff == <<116, 105, 102, 102>>

\* "tif"
ext_tif == <<116, 105, 102>>

\* "svg"
ext_svg == <<115, 118, 103>>

\* "avif"
ext_avif == <<97, 118, 105, 102>>

\* "heic"
ext_heic == <<104, 101, 105, 99>>

\* "heif"
ext_heif == <<104, 101, 105, 102>>

\* "jxl"
ext_jxl == <<106, 120, 108>>

\* const SUPPORTED_EXTENSIONS
SUPPORTED_EXTENSIONS ==
    { ext_jpg, ext_jpeg, ext_png, ext_gif, ext_webp, ext_bmp, ext_tiff,
      ext_tif, ext_svg, ext_avif, ext_heic, ext_heif, ext_jxl }


\* a lowering that leaves every byte as it is
ascii_lower_exact(s) == s

\* s.bytes().map(|b| b.to_ascii_lowercase() as char).collect(): 'A'..'Z'
\* become 'a'..'z', every other byte the character of the same number
ascii_lower(s) == [i \in 1..Len(s) |-> IF s[i] \in 65..90 THEN s[i] + 32 ELSE s[i]]

\* the index of the last '.' of a file name, 0 when it has none
RECURSIVE last_dot(_, _)
last_dot(name, i) ==
    IF i = 0 THEN 0
    ELSE IF name[i] = 46 THEN i
    ELSE last_dot(name, i - 1)

\* Path::extension: the part of the last component after its last '.', None
\* for "..", for a name without '.' and for a name whose only '.' is its
\* first byte
extension(path) ==
    LET name == path[Len(path)]
        dot == last_dot(name, Len(name))
    IN  IF path = <<>> \/ name = <<46, 46>> THEN None
        ELSE IF dot <= 1 THEN None
        ELSE Some(SubSeq(name, dot + 1, Len(name)))

\* OsStr::to_str: None for bytes that are not UTF-8; of the names used here
\* those are the ones holding a byte that no UTF-8 text holds
to_str(s) ==
    IF \E i \in 1..Len(s) : s[i] \in {192, 193} \cup (245..255) THEN None ELSE Some(s)

\* is_supported_image(path)
is_supported_image(path) ==
    IF ~IsSome(extension(path)) THEN FALSE
    ELSE IF ~IsSome(to_str(extension(path).val)) THEN FALSE
    ELSE ascii_lower(to_str(extension(path).val).val) \in SUPPORTED_EXTENSIONS

\* load_image(path) up to the decoder it calls: the decoder's name, or the
\* error for an extension no arm matches
load_image(path) ==
    LET e == IF IsSome(extension(path)) THEN to_str(extension(path).val) ELSE None
        ext == ascii_lower(IF IsSome(e) THEN e.val ELSE <<>>)
    IN  CASE ext \in {ext_jpg, ext_jpeg} -> Ok("load_jpeg")
          [] ext = ext_png -> Ok("load_png")
          [] ext = ext_webp -> Ok("load_webp")
          [] ext = ext_gif -> Ok("load_gif")
          [] ext = ext_bmp -> Ok("load_bmp")
          [] ext \in {ext_tiff, ext_tif} -> Ok("load_tiff")
          [] ext = ext_svg -> Ok("load_svg")
          [] ext = ext_avif -> Ok("load_avif")
          [] ext \in {ext_heic, ext_heif} -> Ok("load_heic")
          [] ext = ext_jxl -> Ok("load_jxl")
          [] OTHER -> Err("Unsupported format")

\* a is before b in the order of OsStr: byte by byte, a prefix first
os_str_lt(a, b) ==
    \E k \in 1..(Min(Len(a), Len(b)) + 1) :
        /\ \A i \in 1..(k - 1) : a[i] = b[i]
        /\ \/ k > Len(a) /\ k <= Len(b)
           \/ k <= Len(a) /\ k <= Len(b) /\ a[k] < b[k]

\* Path::file_name of a path that does not end in "..": its last component
file_name(path) == IF path = <<>> THEN None ELSE Some(path[Len(path)])

\* a.file_name().cmp(&b.file_name()) == Ordering::Less; None is before Some
file_name_lt(a, b) ==
    IF ~IsSome(file_name(b)) THEN FALSE
    ELSE IF ~IsSome(file_name(a)) THEN TRUE
    ELSE os_str_lt(file_name(a).val, file_name(b).val)

\* the place in the sorted vector of the path at place i: behind the paths
\* of a lesser file name and behind the paths of an equal file name that
\* were before it (sort_by is stable)
sorted_place(paths, i) ==
    1 + Cardinality({ j \in 1..Len(paths) :
                        \/ file_name_lt(paths[j], paths[i])
                        \/ ~file_name_lt(paths[i], paths[j]) /\ j < i })

\* paths.sort_by(|a, b| a.file_name().cmp(&b.file_name()))
sort_by_file_name(paths) ==
    [r \in 1..Len(paths) |-> paths[CHOOSE i \in 1..Len(paths) : sorted_place(paths, i) = r]]

\* A file system is a function from the paths that exist to what is there:
\* a directory (readable or not), a regular file, or a symbolic link and the
\* path it names.
Dir == [kind |-> "dir", readable |-> TRUE]

LockedDir == [kind |-> "dir", readable |-> FALSE]

File == [kind |-> "file"]

Symlink(target) == [kind |-> "symlink", target |-> target]

\* where a path leads when symbolic links are followed: the path of a
\* directory or file, None for a path that does not exist and for a chain of
\* more links than the file system has paths
RECURSIVE follow(_, _, _)
follow(fs, p, hops) ==
    IF p \notin DOMAIN fs THEN None
    ELSE IF fs[p].kind # "symlink" THEN Some(p)
    ELSE IF hops = 0 THEN None
    ELSE follow(fs, fs[p].target, hops - 1)

\* a test that takes no entry for a symbolic link
is_symlink_never(fs, p) == FALSE

\* path.is_symlink(): does not follow the link
is_symlink(fs, p) == p \in DOMAIN fs /\ fs[p].kind = "symlink"

\* path.is_dir(): follows links
is_dir(fs, p) ==
    /\ IsSome(follow(fs, p, Cardinality(DOMAIN fs)))
    /\ fs[follow(fs, p, Cardinality(DOMAIN fs)).val].kind = "dir"

\* the names of the entries of the directory at p
entries_of(fs, p) ==
    { q[Len(q)] : q \in { r \in DOMAIN fs : Len(r) = Len(p) + 1 /\ SubSeq(r, 1, Len(p)) = p } }

\* the orders in which read_dir may yield a set of names
RECURSIVE Orders(_)
Orders(names) ==
    IF names = {} THEN { <<>> }
    ELSE UNION { { <<n>> \o rest : rest \in Orders(names \ {n}) } : n \in names }

\* a call of scan_directory(dir, out, depth): dir as the program names it,
\* at as the place it is after following links; pc is "called" before
\* read_dir and "entries" in the loop, entries the names not yet visited
ScanFrame(dir, at, depth, pc_, entries) ==
    [dir |-> dir, at |-> at, depth |-> depth, pc |-> pc_, entries |-> entries]

\* collect_paths between two steps: paths, the calls of scan_directory in
\* progress (innermost last) and the number of arguments done
Collecting(paths, stack, arg) == [paths |-> paths, stack |-> stack, arg |-> arg]

Top(stack) == stack[Len(stack)]

Pop(stack) == SubSeq(stack, 1, Len(stack) - 1)

SetTop(stack, f) == Append(Pop(stack), f)

\* const MAX_DIR_DEPTH
MAX_DIR_DEPTH == 64

\* the step of a frame that reads its next entry: the frame without it
rest_of(f) == ScanFrame(f.dir, f.at, f.depth, "entries", Tail(f.entries))

\* for arg in args: a directory is scanned from depth 0, any other path
\* with a supported extension is taken as it is
CollectArg ==
    /\ op = "init"
    /\ inp.kind = "collect_paths"
    /\ out.stack = <<>>
    /\ out.arg < Len(inp.args)
    /\ LET p == inp.args[out.arg + 1]
       IN  out' = IF is_dir(inp.fs, p)
                  THEN Collecting(out.paths,
                                  <<ScanFrame(p, follow(inp.fs, p, Cardinality(DOMAIN inp.fs)).val,
                                              0, "called", <<>>)>>,
                                  out.arg + 1)
                  ELSE IF is_supported_image(p)
                  THEN Collecting(Append(out.paths, p), <<>>, out.arg + 1)
                  ELSE Collecting(out.paths, <<>>, out.arg + 1)
    /\ UNCHANGED <<op, inp, decVars>>

\* scan_directory: if depth >= MAX_DIR_DEPTH { return; }
DepthReturn ==
    /\ op = "init"
    /\ inp.kind = "collect_paths"
    /\ out.stack # <<>>
    /\ Top(out.stack).pc = "called"
    /\ Top(out.stack).depth >= MAX_DIR_DEPTH
    /\ out' = Collecting(out.paths, Pop(out.stack), out.arg)
    /\ UNCHANGED <<op, inp, decVars>>

\* scan_directory: fs::read_dir(dir); Err(_) => return, else the entries
\* in an order of the file system's choosing
ReadDir ==
    /\ op = "init"
    /\ inp.kind = "collect_paths"
    /\ out.stack # <<>>
    /\ Top(out.stack).pc = "called"
    /\ Top(out.stack).depth < MAX_DIR_DEPTH
    /\ LET f == Top(out.stack)
       IN  IF ~inp.fs[f.at].readable
           THEN out' = Collecting(out.paths, Pop(out.stack), out.arg)
           ELSE \E order \in Orders(entries_of(inp.fs, f.at)) :
                    out' = Collecting(out.paths,
                                      SetTop(out.stack,
                                             ScanFrame(f.dir, f.at, f.depth, "entries", order)),
                                      out.arg)
    /\ UNCHANGED <<op, inp, decVars>>

\* scan_directory: one pass of for entry in entries.flatten()
ScanEntry ==
    /\ op = "init"
    /\ inp.kind = "collect_paths"
    /\ out.stack # <<>>
    /\ Top(out.stack).pc = "entries"
    /\ Top(out.stack).entries # <<>>
    /\ LET f == Top(out.stack)
           path == Append(f.dir, Head(f.entries))
           at == Append(f.at, Head(f.entries))
       IN  out' = IF is_symlink(inp.fs, at)
                  THEN Collecting(out.paths, SetTop(out.stack, rest_of(f)), out.arg)
                  ELSE IF is_dir(inp.fs, at)
                  THEN Collecting(out.paths,
                                  Append(SetTop(out.stack, rest_of(f)),
                                         ScanFrame(path,
                                                   follow(inp.fs, at, Cardinality(DOMAIN inp.fs)).val,
                                                   f.depth + 1, "called", <<>>)),
                                  out.arg)
                  ELSE IF is_supported_image(path)
                  THEN Collecting(Append(out.paths, path), SetTop(out.stack, rest_of(f)), out.arg)
                  ELSE Collecting(out.paths, SetTop(out.stack, rest_of(f)), out.arg)
    /\ UNCHANGED <<op, inp, decVars>>

\* scan_directory returns after its last entry
ScanReturn ==
    /\ op = "init"
    /\ inp.kind = "collect_paths"
    /\ out.stack # <<>>
    /\ Top(out.stack).pc = "entries"
    /\ Top(out.stack).entries = <<>>
    /\ out' = Collecting(out.paths, Pop(out.stack), out.arg)
    /\ UNCHANGED <<op, inp, decVars>>

\* collect_paths after its last argument: the sort and the return
SortPaths ==
    /\ op = "init"
    /\ inp.kind = "collect_paths"
    /\ out.stack = <<>>
    /\ out.arg = Len(inp.args)
    /\ op' = "collect_paths"
    /\ out' = sort_by_file_name(out.paths)
    /\ UNCHANGED <<inp, decVars>>

IsSupportedImage ==
    /\ op = "init"
    /\ inp.kind = "is_supported_image"
    /\ op' = "is_supported_image"
    /\ out' = is_supported_image(inp.path)
    /\ UNCHANGED <<inp, decVars>>

DispatchImage ==
    /\ op = "init"
    /\ inp.kind = "load_image"
    /\ op' = "load_image"
    /\ out' = load_image(inp.path)
    /\ UNCHANGED <<inp, decVars>>

CollectNext ==
    \/ CollectArg
    \/ DepthReturn
    \/ ReadDir
    \/ ScanEntry
    \/ ScanReturn
    \/ SortPaths
    \/ IsSupportedImage
    \/ DispatchImage

\* the names of the file systems below
n_B_PNG == <<66, 46, 80, 78, 71>>

n_a_png == <<97, 46, 112, 110, 103>>

n_a_webp == <<97, 46, 119, 101, 98, 112>>

n_b_jpg == <<98, 46, 106, 112, 103>>

n_c_GIF == <<99, 46, 71, 73, 70>>

n_c_gif == <<99, 46, 103, 105, 102>>

n_d == <<100>>

n_e == <<101>>

n_gone == <<103, 111, 110, 101>>

n_gone_png == <<103, 111, 110, 101, 46, 112, 110, 103>>

n_l == <<108>>

n_l_png == <<108, 46, 112, 110, 103>>

n_m == <<109>>

n_n_txt == <<110, 46, 116, 120, 116>>

n_r == <<114>>

n_up == <<117, 112>>

n_x == <<120>>

\* a directory of three files, one of them no image
FlatTree ==
    (<<n_r>> :> Dir)
    @@ (<<n_r, n_a_png>> :> File)
    @@ (<<n_r, n_b_jpg>> :> File)
    @@ (<<n_r, n_n_txt>> :> File)

\* two directories that each hold a file a.png
TwinTree ==
    (<<n_r>> :> Dir)
    @@ (<<n_r, n_d>> :> Dir)
    @@ (<<n_r, n_e>> :> Dir)
    @@ (<<n_r, n_d, n_a_png>> :> File)
    @@ (<<n_r, n_e, n_a_png>> :> File)

\* links that lead back to the root from the root and from a directory below it
CycleTree ==
    (<<n_r>> :> Dir)
    @@ (<<n_r, n_a_png>> :> File)
    @@ (<<n_r, n_l>> :> Symlink(<<n_r>>))
    @@ (<<n_r, n_d>> :> Dir)
    @@ (<<n_r, n_d, n_b_jpg>> :> File)
    @@ (<<n_r, n_d, n_up>> :> Symlink(<<n_r>>))

\* a link with an image name to a file beside it
LinkedFileTree ==
    (<<n_r>> :> Dir)
    @@ (<<n_r, n_a_png>> :> File)
    @@ (<<n_r, n_l_png>> :> Symlink(<<n_r, n_a_png>>))

\* a link to a directory outside the tree, which a second tree reaches by a link
EscapeTree ==
    (<<n_r>> :> Dir)
    @@ (<<n_r, n_b_jpg>> :> File)
    @@ (<<n_r, n_l>> :> Symlink(<<n_x>>))
    @@ (<<n_x>> :> Dir)
    @@ (<<n_x, n_c_gif>> :> File)
    @@ (<<n_x, n_l>> :> Symlink(<<n_r>>))

\* a link to itself, a link to nothing and a directory that cannot be read
BrokenLinkTree ==
    (<<n_r>> :> Dir)
    @@ (<<n_r, n_l>> :> Symlink(<<n_r, n_l>>))
    @@ (<<n_r, n_m>> :> Symlink(<<n_r, n_gone>>))
    @@ (<<n_r, n_a_png>> :> File)
    @@ (<<n_r, n_d>> :> LockedDir)
    @@ (<<n_r, n_d, n_b_jpg>> :> File)

\* names in both letter cases, in a directory and below it
MixedTree ==
    (<<n_r>> :> Dir)
    @@ (<<n_r, n_B_PNG>> :> File)
    @@ (<<n_r, n_a_png>> :> File)
    @@ (<<n_r, n_c_GIF>> :> File)
    @@ (<<n_r, n_d>> :> Dir)
    @@ (<<n_r, n_d, n_b_jpg>> :> File)
    @@ (<<n_r, n_d, n_a_webp>> :> File)

\* "d" repeated k times: a directory k - 1 levels below the first
Nest(k) == [i \in 1..k |-> n_d]

\* directories nested two deeper than MAX_DIR_DEPTH, each holding the next
\* and nothing else; a.png in the last one that is read, b.jpg in the first
\* one that is not
DeepTree ==
    [p \in { Nest(k) : k \in 1..(MAX_DIR_DEPTH + 2) }
           \cup { Append(Nest(MAX_DIR_DEPTH), n_a_png), Append(Nest(MAX_DIR_DEPTH + 1), n_b_jpg) }
        |-> IF p[Len(p)] = n_d THEN Dir ELSE File]

\* the calls of collect_paths: a file system and the arguments
CollectInputs ==
    { [kind |-> "collect_paths", fs |-> FlatTree, args |-> <<<<n_r>>>>],
      [kind |-> "collect_paths", fs |-> FlatTree, args |-> <<<<n_r, n_b_jpg>>, <<n_r, n_a_png>>>>],
      [kind |-> "collect_paths", fs |-> FlatTree, args |-> <<<<n_r, n_n_txt>>, <<n_r>>>>],
      [kind |-> "collect_paths", fs |-> FlatTree, args |-> <<<<n_r, n_gone_png>>, <<n_r, n_a_png>>, <<n_r>>>>],
      [kind |-> "collect_paths", fs |-> TwinTree, args |-> <<<<n_r>>>>],
      [kind |-> "collect_paths", fs |-> TwinTree, args |-> <<<<n_r, n_e>>, <<n_r, n_d>>>>],
      [kind |-> "collect_paths", fs |-> TwinTree, args |-> <<<<n_r, n_d>>, <<n_r, n_d>>>>],
      [kind |-> "collect_paths", fs |-> CycleTree, args |-> <<<<n_r>>>>],
      [kind |-> "collect_paths", fs |-> CycleTree, args |-> <<<<n_r, n_d>>, <<n_r>>>>],
      [kind |-> "collect_paths", fs |-> LinkedFileTree, args |-> <<<<n_r>>>>],
      [kind |-> "collect_paths", fs |-> LinkedFileTree, args |-> <<<<n_r, n_a_png>>, <<n_r>>>>],
      [kind |-> "collect_paths", fs |-> EscapeTree, args |-> <<<<n_r>>>>],
      [kind |-> "collect_paths", fs |-> EscapeTree, args |-> <<<<n_x>>, <<n_r>>>>],
      [kind |-> "collect_paths", fs |-> EscapeTree, args |-> <<<<n_r, n_l>>>>],
      [kind |-> "collect_paths", fs |-> BrokenLinkTree, args |-> <<<<n_r>>>>],
      [kind |-> "collect_paths", fs |-> BrokenLinkTree, args |-> <<<<n_r, n_d>>, <<n_r>>>>],
      [kind |-> "collect_paths", fs |-> MixedTree, args |-> <<<<n_r>>>>],
      [kind |-> "collect_paths", fs |-> MixedTree, args |-> <<<<n_r, n_d>>, <<n_r, n_a_png>>>>],
      [kind |-> "collect_paths", fs |-> DeepTree, args |-> <<Nest(1)>>],
      [kind |-> "collect_paths", fs |-> FlatTree, args |-> <<>>] }

\* the spellings of an extension in upper and lower case letters
RECURSIVE CaseVariants(_)
CaseVariants(e) ==
    IF e = <<>> THEN { <<>> }
    ELSE { <<c>> \o rest : c \in {e[1], e[1] - 32}, rest \in CaseVariants(Tail(e)) }

\* "t." and an extension
Named(e) == <<116, 46>> \o e

\* paths whose extension is on the list in some spelling, and paths whose
\* extension is not: near misses, bytes next to the letters, bytes that are
\* not UTF-8, a long s for the s of svg, names without an extension
ExtensionPaths ==
    { <<Named(v)>> : v \in UNION { CaseVariants(e) : e \in SUPPORTED_EXTENSIONS } }
    \cup { <<Named(e)>> :
             e \in { <<116, 120, 116>>, <<112, 110>>, <<112, 110, 103, 120>>, <<120, 112, 110, 103>>,
                     <<>>, <<112, 110, 91>>, <<64, 112, 103>>, <<112, 110, 71, 32>>,
                     <<255, 112, 110, 103>>, <<112, 110, 103, 255>>, <<197, 191, 118, 103>>,
                     <<106, 112, 195, 169, 103>>, <<80, 78, 39>>, <<48, 73, 70>> } }
    \cup { <<ext_png>>, <<<<46>> \o ext_png>>, <<<<46, 46>>>>, <<Named(ext_png) \o <<46>> \o ext_gif>>,
           <<Named(<<116, 120, 116>>) \o <<46>> \o <<80, 78, 71>>>>,
           <<n_d, n_B_PNG>>, <<n_a_png, n_d>>, <<n_a_png, n_n_txt>>, <<n_n_txt, n_c_GIF>> }

ExtensionInputs ==
    { [kind |-> k, path |-> p] : k \in {"is_supported_image", "load_image"}, p \in ExtensionPaths }

CollectInit ==
    /\ op = "init"
    /\ inp \in CollectInputs \cup ExtensionInputs
    /\ out = IF inp.kind = "collect_paths" THEN Collecting(<<>>, <<>>, 0) ELSE None
    /\ DecIdle

\* every step of collect_paths is taken in the end: the program runs on
CollectSpec == CollectInit /\ [][CollectNext]_vars /\ WF_vars(CollectNext)

\* the arguments that are directories and lead to path p
C18_RootsOf(p) ==
    { k \in 1..Len(inp.args) :
        /\ is_dir(inp.fs, inp.args[k])
        /\ Len(inp.args[k]) < Len(p)
        /\ SubSeq(p, 1, Len(inp.args[k])) = inp.args[k] }

\* the place of the entry that a path below a scanned argument names: the
\* place of the argument, links followed, and the components below it
C18_EntryAt(p) ==
    LET k == CHOOSE r \in C18_RootsOf(p) :
                 \A q \in C18_RootsOf(p) : Len(inp.args[q]) <= Len(inp.args[r])
        root == inp.args[k]
    IN  follow(inp.fs, root, Cardinality(DOMAIN inp.fs)).val \o SubSeq(p, Len(root) + 1, Len(p))

\* the paths collected so far, or returned
C18_Paths == IF op = "collect_paths" THEN out ELSE out.paths

\* no call of scan_directory is deeper than MAX_DIR_DEPTH, every call but
\* the outermost is for an entry of the directory of the call around it that
\* is a directory and no link, and every path collected below a scanned
\* argument, unless an argument itself, is an entry that is a file and no link
C18_NoLinkFollowed ==
    inp.kind = "collect_paths" =>
        /\ op = "init" =>
              \A k \in 1..Len(out.stack) :
                  /\ out.stack[k].depth = k - 1
                  /\ out.stack[k].depth <= MAX_DIR_DEPTH
                  /\ k >= 2 =>
                        /\ out.stack[k].at
                               = Append(out.stack[k - 1].at, out.stack[k].dir[Len(out.stack[k].dir)])
                        /\ inp.fs[out.stack[k].at].kind = "dir"
        /\ \A i \in 1..Len(C18_Paths) :
              (/\ C18_RootsOf(C18_Paths[i]) # {}
               /\ \A k \in 1..Len(inp.args) : inp.args[k] # C18_Paths[i]) =>
                  /\ C18_EntryAt(C18_Paths[i]) \in DOMAIN inp.fs
                  /\ inp.fs[C18_EntryAt(C18_Paths[i])].kind = "file"

\* C18: on a directory tree with symbolic links, cycles among them included,
\* collect_paths returns; its recursion is never deeper than 64 levels, it
\* never descends through a symbolic link met in the traversal and it
\* returns no path that is a symbolic-link entry of a scanned directory
C18_TerminatesWithoutLinks ==
    /\ []C18_NoLinkFollowed
    /\ <>(inp.kind = "collect_paths" => op = "collect_paths")

\* the tree whose links lead back to its root has been scanned from the
\* root: the two files are returned, nothing through or of the links
C18_Witness ==
    /\ op = "collect_paths"
    /\ inp.kind = "collect_paths"
    /\ inp.fs = CycleTree
    /\ inp.args = <<<<n_r>>>>
    /\ out = <<<<n_r, n_a_png>>, <<n_r, n_d, n_b_jpg>>>>

\* names in the order of OsStr
RECURSIVE C19_Ascending(_)
C19_Ascending(names) ==
    IF names = {} THEN <<>>
    ELSE LET first == CHOOSE n \in names : \A m \in names \ {n} : os_str_lt(n, m)
         IN  <<first>> \o C19_Ascending(names \ {first})

\* what scan_directory pushes when every directory yields its entries in
\* ascending order of name
RECURSIVE C19_Scan(_, _, _)
RECURSIVE C19_ScanEntries(_, _, _, _)
C19_Scan(dir, at, depth) ==
    IF depth >= MAX_DIR_DEPTH \/ ~inp.fs[at].readable THEN <<>>
    ELSE C19_ScanEntries(dir, at, depth, C19_Ascending(entries_of(inp.fs, at)))

C19_ScanEntries(dir, at, depth, order) ==
    IF order = <<>> THEN <<>>
    ELSE LET path == Append(dir, Head(order))
             here == Append(at, Head(order))
             found == IF is_symlink(inp.fs, here) THEN <<>>
                      ELSE IF is_dir(inp.fs, here) THEN C19_Scan(path, here, depth + 1)
                      ELSE IF is_supported_image(path) THEN <<path>>
                      ELSE <<>>
         IN  found \o C19_ScanEntries(dir, at, depth, Tail(order))

\* what collect_paths gathers from its first k arguments in that case
RECURSIVE C19_Gathered(_)
C19_Gathered(k) ==
    IF k = 0 THEN <<>>
    ELSE LET p == inp.args[k]
         IN  C19_Gathered(k - 1)
             \o (IF is_dir(inp.fs, p)
                 THEN C19_Scan(p, follow(inp.fs, p, Cardinality(DOMAIN inp.fs)).val, 0)
                 ELSE IF is_supported_image(p) THEN <<p>>
                 ELSE <<>>)

\* C19: collect_paths returns its paths in non-decreasing order of file
\* name, and the same sequence whatever the order in which the directories
\* yield their entries: the one it returns when they yield them in ascending
\* order of name
C19_SortedAndDeterministic ==
    (inp.kind = "collect_paths" /\ op = "collect_paths") =>
        /\ \A i \in 1..(Len(out) - 1) : ~file_name_lt(out[i + 1], out[i])
        /\ out = sort_by_file_name(C19_Gathered(Len(inp.args)))

\* a and b are the same but for the case of ASCII letters
C20_EqIgnoreAsciiCase(a, b) ==
    /\ Len(a) = Len(b)
    /\ \A i \in 1..Len(a) :
          \/ a[i] = b[i]
          \/ a[i] \in 65..90 /\ b[i] = a[i] + 32
          \/ b[i] \in 65..90 /\ a[i] = b[i] + 32

\* the extensions of the list that the extension of the path spells
C20_Listed ==
    IF IsSome(extension(inp.path))
    THEN { e \in SUPPORTED_EXTENSIONS : C20_EqIgnoreAsciiCase(extension(inp.path).val, e) }
    ELSE {}

\* the decoder of each extension of the list
C20_Decoder(e) ==
    CASE e \in {ext_jpg, ext_jpeg} -> "load_jpeg"
      [] e \in {ext_tiff, ext_tif} -> "load_tiff"
      [] e \in {ext_heic, ext_heif} -> "load_heic"
      [] e = ext_png -> "load_png"
      [] e = ext_gif -> "load_gif"
      [] e = ext_webp -> "load_webp"
      [] e = ext_bmp -> "load_bmp"
      [] e = ext_svg -> "load_svg"
      [] e = ext_avif -> "load_avif"
      [] e = ext_jxl -> "load_jxl"

\* C20: is_supported_image accepts a path exactly when its extension is, but
\* for the case of ASCII letters, one of the thirteen of the list; load_image
\* calls the decoder of that extension, and answers 'Unsupported format'
\* exactly for the other paths
C20_ExtensionsDispatched ==
    /\ op = "is_supported_image" => (out <=> C20_Listed # {})
    /\ op = "load_image" =>
          /\ \A e \in C20_Listed : out = Ok(C20_Decoder(e))
          /\ C20_Listed = {} => out = Err("Unsupported format")

\* load_image has sent "t.JpEg" to the JPEG decoder
C20_Witness ==
    /\ op = "load_image"
    /\ inp.path = <<<<116, 46, 74, 112, 69, 103>>>>
    /\ out = Ok("load_jpeg")

\* ------------------------------------------------------------------------
\* ThumbSpec: the dimensions of the thumbnail load_image_thumbnail returns
\* ------------------------------------------------------------------------

\* (x as f64).round() as u32 for x = num / den >= 0, x computed in f64: the
\* nearest integer, and either neighbour when x is exactly halfway, where
\* the rounding of the f64 product decides
f64_round(num, den) ==
    IF (2 * num + den) % (2 * den) = 0
    THEN {(2 * num + den) \div (2 * den) - 1, (2 * num + den) \div (2 * den)}
    ELSE {(2 * num + den) \div (2 * den)}

\* scale_to_fit(img, max_w, max_h) for max_w = max_h: the dimensions it hands
\* to resize_rgba; scale is max_w / src_w when that is the lesser quotient
scale_to_fit(src_w, src_h, max_w, max_h) ==
    IF src_w = 0 \/ src_h = 0 \/ max_w = 0 \/ max_h = 0 THEN {<<1, 1>>}
    ELSE IF max_w * src_h <= max_h * src_w
    THEN { <<Max(dst_w, 1), Max(dst_h, 1)>> :
             dst_w \in f64_round(src_w * max_w, src_w), dst_h \in f64_round(src_h * max_w, src_w) }
    ELSE { <<Max(dst_w, 1), Max(dst_h, 1)>> :
             dst_w \in f64_round(src_w * max_h, src_h), dst_h \in f64_round(src_h * max_h, src_h) }

\* generate_thumbnail(img, thumb_size)
generate_thumbnail(width, height, thumb_size) == scale_to_fit(width, height, thumb_size, thumb_size)

\* a scaling that rounds down
ScalingFactor_scale_floor(num, dimension) == (dimension * num) \div 8

\* turbojpeg::ScalingFactor::scale for the factor num / 8: rounds up
ScalingFactor_scale(num, dimension) == (dimension * num + 7) \div 8

\* ONE_EIGHTH, ONE_QUARTER, ONE_HALF, ONE as eighths
scaling_factors == <<1, 2, 4, 8>>

\* a choice that tries ONE_EIGHTH alone
best_scaling_factor_eighth_only(width, height, thumb_size, k) ==
    IF /\ ScalingFactor_scale(scaling_factors[k], width) >= thumb_size
       /\ ScalingFactor_scale(scaling_factors[k], height) >= thumb_size
    THEN scaling_factors[k]
    ELSE 8

\* load_jpeg_thumbnail: for &sf in &scaling_factors { .. break }, from the
\* k-th factor on; best stays ONE when the loop ends without a break
RECURSIVE best_scaling_factor(_, _, _, _)
best_scaling_factor(width, height, thumb_size, k) ==
    IF k > Len(scaling_factors) THEN 8
    ELSE IF /\ ScalingFactor_scale(scaling_factors[k], width) >= thumb_size
            /\ ScalingFactor_scale(scaling_factors[k], height) >= thumb_size
    THEN scaling_factors[k]
    ELSE best_scaling_factor(width, height, thumb_size, k + 1)

\* the dimensions apply_orientation leaves: swapped for 5..8
oriented(width, height, orientation) ==
    IF orientation \in 5..8 THEN <<height, width>> ELSE <<width, height>>

\* header.scaled(best): the dimensions decoded
scaled_header(header, thumb_size) ==
    <<ScalingFactor_scale(best_scaling_factor(header[1], header[2], thumb_size, 1), header[1]),
      ScalingFactor_scale(best_scaling_factor(header[1], header[2], thumb_size, 1), header[2])>>

\* load_jpeg_thumbnail after the decode of w x h: the EXIF orientation, then
\* generate_thumbnail
jpeg_thumbnail(decoded, orientation, thumb_size) ==
    generate_thumbnail(oriented(decoded[1], decoded[2],
                                IF IsSome(orientation) THEN orientation.val ELSE 1)[1],
                       oriented(decoded[1], decoded[2],
                                IF IsSome(orientation) THEN orientation.val ELSE 1)[2],
                       thumb_size)

\* LoadedImage::first_frame as dimensions
first_frame(loaded) == IF loaded.kind = "Static" THEN loaded.dims ELSE loaded.frames[1]

\* load_image_thumbnail(path, thumb_size) for a file that is no JPEG: the
\* results it can return, load_image having returned src.loaded
load_image_thumbnail(src, thumb_size) ==
    IF IsErr(src.loaded) THEN { src.loaded }
    ELSE { Ok(d) : d \in generate_thumbnail(first_frame(src.loaded.val)[1],
                                            first_frame(src.loaded.val)[2], thumb_size) }

\* sources: what load_image returns for a file that is no JPEG, and the
\* header and EXIF orientation of a JPEG
ThumbSides == {1, 2, 3, 5, 8, 12}

ThumbTargets == {1, 2, 3, 4}

LoadedImages ==
    { Ok([kind |-> "Static", dims |-> <<w, h>>]) : w \in ThumbSides, h \in ThumbSides }
    \cup { Ok([kind |-> "Static", dims |-> d]) :
             d \in { <<1000, 1>>, <<1, 1000>>, <<145, 464>>, <<640, 480>>, <<200, 200>>, <<1601, 3000>> } }
    \cup { Ok([kind |-> "Animated", frames |-> fr]) :
             fr \in { << <<8, 5>>, <<8, 5>> >>, << <<3, 12>>, <<1, 1>>, <<3, 12>> >>,
                      << <<1, 1>>, <<640, 480>> >> } }
    \cup { Err("Unsupported format"), Err("Failed to decode") }

JpegHeaders ==
    { Some(<<w, h>>) : w \in {1, 9, 17, 33}, h \in {8, 25, 41} }
    \cup { Some(<<399, 1613>>), Some(<<1600, 1600>>), Some(<<1601, 3000>>), Some(<<4000, 3000>>),
           Some(<<800, 400>>), Some(<<150, 4000>>), None }

ThumbInputs ==
    { [kind |-> "load_image_thumbnail", thumb_size |-> t,
       src |-> [jpeg |-> FALSE, loaded |-> l]] : t \in ThumbTargets \cup {200}, l \in LoadedImages }
    \cup { [kind |-> "load_image_thumbnail", thumb_size |-> t,
            src |-> [jpeg |-> TRUE, header |-> hd, orientation |-> o]] :
             t \in {1, 3, 200}, hd \in JpegHeaders, o \in {None, Some(1), Some(6), Some(8)} }

ThumbInit ==
    /\ op = "init"
    /\ inp \in ThumbInputs
    /\ out = None
    /\ DecIdle

\* load_image_thumbnail(path, thumb_size) for a file that is no JPEG
ThumbnailOf ==
    /\ op = "init"
    /\ inp.kind = "load_image_thumbnail"
    /\ ~inp.src.jpeg
    /\ op' = "load_image_thumbnail"
    /\ out' \in load_image_thumbnail(inp.src, inp.thumb_size)
    /\ UNCHANGED <<inp, decVars>>

\* load_jpeg_thumbnail up to decompressor.decompress
JpegScaledDecode ==
    /\ op = "init"
    /\ inp.kind = "load_image_thumbnail"
    /\ inp.src.jpeg
    /\ IF IsSome(inp.src.header)
       THEN /\ op' = "decompress"
            /\ out' = scaled_header(inp.src.header.val, inp.thumb_size)
       ELSE /\ op' = "load_image_thumbnail"
            /\ out' = Err("Failed to read JPEG header")
    /\ UNCHANGED <<inp, decVars>>

\* load_jpeg_thumbnail after decompressor.decompress
JpegGenerateThumbnail ==
    /\ op = "decompress"
    /\ op' = "load_image_thumbnail"
    /\ out' \in { Ok(d) : d \in jpeg_thumbnail(out, inp.src.orientation, inp.thumb_size) }
    /\ UNCHANGED <<inp, decVars>>

ThumbNext ==
    \/ ThumbnailOf
    \/ JpegScaledDecode
    \/ JpegGenerateThumbnail

ThumbSpec == ThumbInit /\ [][ThumbNext]_vars

\* the dimensions load_image_thumbnail scales: of the first frame, or of the
\* JPEG as its header declares it, turned as its EXIF orientation says
C21_SourceDims ==
    IF inp.src.jpeg
    THEN oriented(inp.src.header.val[1], inp.src.header.val[2],
                  IF IsSome(inp.src.orientation) THEN inp.src.orientation.val ELSE 1)
    ELSE IF inp.src.loaded.val.kind = "Static" THEN inp.src.loaded.val.dims
    ELSE inp.src.loaded.val.frames[1]

\* the least of the factors 1, 2, 4, 8 eighths at which both sides of the
\* header, rounded up, are at least thumb_size; 8 when there is none
C22_Fits(n) ==
    /\ (inp.src.header.val[1] * n + 7) \div 8 >= inp.thumb_size
    /\ (inp.src.header.val[2] * n + 7) \div 8 >= inp.thumb_size

C22_Smallest ==
    IF \E n \in {1, 2, 4, 8} : C22_Fits(n)
    THEN CHOOSE n \in {1, 2, 4, 8} : C22_Fits(n) /\ \A m \in {1, 2, 4, 8} : C22_Fits(m) => n <= m
    ELSE 8

\* the dimensions of the image generate_thumbnail is given: the source's,
\* and for a JPEG those of the decode at the factor C22_Smallest
C21_DecodedDims ==
    IF inp.src.jpeg
    THEN oriented((inp.src.header.val[1] * C22_Smallest + 7) \div 8,
                  (inp.src.header.val[2] * C22_Smallest + 7) \div 8,
                  IF IsSome(inp.src.orientation) THEN inp.src.orientation.val ELSE 1)
    ELSE C21_SourceDims

\* d is side * min(target / w, target / h) rounded to a nearest integer, and
\* 1 when that is 0
C21_IsScaled(d, side, w, h, target) ==
    \/ /\ d >= 1
       /\ 2 * d * Max(w, h) - 2 * side * target <= Max(w, h)
       /\ 2 * side * target - 2 * d * Max(w, h) <= Max(w, h)
    \/ d = 1 /\ 2 * side * target <= Max(w, h)

\* the result is d scaled to fit target x target
C21_Fits(d) ==
    /\ out.val[1] \in 1..inp.thumb_size
    /\ out.val[2] \in 1..inp.thumb_size
    /\ C21_IsScaled(out.val[1], d[1], d[1], d[2], inp.thumb_size)
    /\ C21_IsScaled(out.val[2], d[2], d[1], d[2], inp.thumb_size)

\* C21 as stated: the thumbnail is between 1 and target wide and high, and
\* its sides are those of the source (of the first frame of an animation)
\* times min(target / width, target / height), rounded
C21_ScaledSource ==
    (op = "load_image_thumbnail" /\ IsOk(out)) => C21_Fits(C21_SourceDims)

\* C21: the thumbnail is between 1 and target wide and high, and its sides
\* are those of the decoded image (the first frame of an animation; for a
\* JPEG the decode at the DCT scaling factor load_jpeg_thumbnail picks) times
\* min(target / width, target / height), rounded
C21_ScaledDecode ==
    (op = "load_image_thumbnail" /\ IsOk(out)) => C21_Fits(C21_DecodedDims)

\* an animation whose first frame is 3 x 12 and whose second is 1 x 1 has
\* the thumbnail 1 x 4 for target 4
C21_Witness ==
    /\ op = "load_image_thumbnail"
    /\ inp.thumb_size = 4
    /\ ~inp.src.jpeg
    /\ IsOk(inp.src.loaded)
    /\ inp.src.loaded.val.kind = "Animated"
    /\ inp.src.loaded.val.frames = << <<3, 12>>, <<1, 1>>, <<3, 12>> >>
    /\ out = Ok(<<1, 4>>)

\* C22: load_jpeg_thumbnail decodes at the smallest of 1/8, 1/4, 1/2 and 1
\* at which the scaled width and the scaled height are both at least
\* thumb_size, and at 1 when they are at none
C22_SmallestFactor ==
    op = "decompress" =>
        /\ out[1] = (inp.src.header.val[1] * C22_Smallest + 7) \div 8
        /\ out[2] = (inp.src.header.val[2] * C22_Smallest + 7) \div 8

\* a JPEG of 399 x 1613 is decoded at 1/2, as 200 x 807, for a thumbnail of
\* 200: at 1/4 it would be 100 x 404
C22_Witness ==
    /\ op = "decompress"
    /\ inp.src.header = Some(<<399, 1613>>)
    /\ inp.thumb_size = 200
    /\ out = <<200, 807>>

\* ---------------------------------------------------------------------------
\* Key bindings (src/input.rs): map_key and the per-mode tables
\* ---------------------------------------------------------------------------

\* Evdev keycodes (layout-independent)
KEY_H == 35
KEY_J == 36
KEY_K == 37
KEY_L == 38
KEY_W == 17
KEY_0 == 11

Action(name) == [action |-> name]
PanStart(dir) == [action |-> "PanStart", dir |-> dir]
PanStop(dir) == [action |-> "PanStop", dir |-> dir]

KeyEvent(keycode, keysym, pressed, ctrl, shift) == [keycode |-> keycode, keysym |-> keysym, pressed |-> pressed, ctrl |-> ctrl, shift |-> shift]

map_viewer_key(keycode, sym, ctrl, shift) ==
    IF ctrl /\ keycode = KEY_0 THEN Some(Action("ActualSize"))
    ELSE IF shift /\ keycode = KEY_W THEN Some(Action("FitToWindow"))
    ELSE CASE sym \in {"h", "Left"} -> Some(PanStart("Left"))
           [] sym \in {"l", "Right"} -> Some(PanStart("Right"))
           [] sym \in {"k", "Up"} -> Some(PanStart("Up"))
           [] sym \in {"j", "Down"} -> Some(PanStart("Down"))
           [] sym = "n" -> Some(Action("NextImage"))
           [] sym = "p" -> Some(Action("PrevImage"))
           [] sym = "g" -> Some(Action("FirstImage"))
           [] sym = "G" -> Some(Action("LastImage"))
           [] sym \in {"plus", "equal"} -> Some(Action("ZoomIn"))
           [] sym = "minus" -> Some(Action("ZoomOut"))
           [] sym = "_0" -> Some(Action("ZoomReset"))
           [] sym = "e" -> Some(Action("ToggleExif"))
           [] sym = "f" -> Some(Action("Fullscreen"))
           [] sym = "r" -> Some(Action("RotateCW"))
           [] sym = "R" -> Some(Action("RotateCCW"))
           [] sym = "space" -> Some(Action("NextImage"))
           [] sym = "BackSpace" -> Some(Action("PrevImage"))
           [] OTHER -> None

map_viewer_key_release(keycode, sym) ==
    CASE keycode = KEY_H -> Some(PanStop("Left"))
      [] keycode = KEY_J -> Some(PanStop("Down"))
      [] keycode = KEY_K -> Some(PanStop("Up"))
      [] keycode = KEY_L -> Some(PanStop("Right"))
      [] OTHER -> CASE sym = "Left" -> Some(PanStop("Left"))
                    [] sym = "Right" -> Some(PanStop("Right"))
                    [] sym = "Up" -> Some(PanStop("Up"))
                    [] sym = "Down" -> Some(PanStop("Down"))
                    [] OTHER -> None

map_gallery_key(sym) ==
    CASE sym \in {"h", "Left"} -> Some(Action("MoveLeft"))
      [] sym \in {"l", "Right"} -> Some(Action("MoveRight"))
      [] sym \in {"k", "Up"} -> Some(Action("MoveUp"))
      [] sym \in {"j", "Down"} -> Some(Action("MoveDown"))
      [] sym = "g" -> Some(Action("GalleryFirst"))
      [] sym = "G" -> Some(Action("GalleryLast"))
      [] OTHER -> None

map_key(event, mode) ==
    IF ~event.pressed
    THEN IF mode = "Viewer" THEN map_viewer_key_release(event.keycode, event.keysym) ELSE None
    ELSE CASE event.keysym = "q" -> Some(Action("Quit"))
           [] event.keysym = "Escape" -> Some(Action("EscapeOrQuit"))
           [] event.keysym = "Return" -> Some(Action("ToggleMode"))
           [] event.keysym = "s" -> Some(Action("CycleSort"))
           [] OTHER -> IF mode = "Viewer"
                       THEN map_viewer_key(event.keycode, event.keysym, event.ctrl, event.shift)
                       ELSE map_gallery_key(event.keysym)

\* Keys of the keyboard: the six positions the tables name, position 0 of the
\* tests' events, and one more; the symbol a position carries is the layout's.
Keycodes == {0, KEY_0, KEY_W, KEY_H, KEY_J, KEY_K, KEY_L, KEY_L + 1}

Keysyms == {"q", "Escape", "Return", "s", "h", "j", "k", "l", "Left", "Right", "Up", "Down", "n", "p", "g", "G", "plus", "equal", "minus", "_0", "e", "f", "r", "R", "space", "BackSpace", "W", "z"}

Modes == {"Viewer", "Gallery"}

KeyInputs == [kind : {"key"}, keycode : Keycodes, keysym : Keysyms, ctrl : BOOLEAN, shift : BOOLEAN, mode : Modes]

InputInit ==
    /\ op = "init"
    /\ inp \in KeyInputs
    /\ out = None
    /\ DecIdle

\* wl_keyboard key event, state pressed: map_key on the press
KeyPress ==
    /\ op = "init"
    /\ op' = "press"
    /\ out' = map_key(KeyEvent(inp.keycode, inp.keysym, TRUE, inp.ctrl, inp.shift), inp.mode)
    /\ UNCHANGED <<inp, decVars>>

\* the same key released: map_key on the release, next to what the press gave
KeyRelease ==
    /\ op = "press"
    /\ op' = "release"
    /\ out' = [press |-> out, release |-> map_key(KeyEvent(inp.keycode, inp.keysym, FALSE, inp.ctrl, inp.shift), inp.mode)]
    /\ UNCHANGED <<inp, decVars>>

InputNext == KeyPress \/ KeyRelease

InputSpec == InputInit /\ [][InputNext]_vars

PanDirections == {"Left", "Right", "Up", "Down"}

C23_Global == [q |-> "Quit", Escape |-> "EscapeOrQuit", Return |-> "ToggleMode", s |-> "CycleSort"]

\* the key symbols bound per mode, beside the global ones
C23_ViewerSyms == {"h", "j", "k", "l", "Left", "Right", "Up", "Down", "n", "p", "g", "G", "plus", "equal", "minus", "_0", "e", "f", "r", "R", "space", "BackSpace"}

C23_GallerySyms == {"h", "j", "k", "l", "Left", "Right", "Up", "Down", "g", "G"}

C23_Bound ==
    \/ inp.keysym \in DOMAIN C23_Global
    \/ inp.mode = "Viewer" /\ inp.keysym \in C23_ViewerSyms
    \/ inp.mode = "Viewer" /\ inp.ctrl /\ inp.keycode = KEY_0
    \/ inp.mode = "Viewer" /\ inp.shift /\ inp.keycode = KEY_W
    \/ inp.mode = "Gallery" /\ inp.keysym \in C23_GallerySyms

C23_PressBindings ==
    op = "press" =>
        /\ inp.keysym \in DOMAIN C23_Global => out = Some(Action(C23_Global[inp.keysym]))
        /\ ~C23_Bound => out = None

C23_ReleaseBindings ==
    op = "release" =>
        /\ inp.mode = "Gallery" => out.release = None
        /\ IsSome(out.release) => inp.mode = "Viewer" /\ \E d \in PanDirections : out.release = Some(PanStop(d))
        /\ \A d \in PanDirections : out.press = Some(PanStart(d)) => out.release = Some(PanStop(d))

\* C23: map_key maps a press of q, Escape, Return and s to Quit, EscapeOrQuit,
\* ToggleMode and CycleSort in both modes before any mode-specific binding; a
\* release maps to an action only in Viewer mode and only to PanStop of the
\* direction of the released key, the one its press started panning in, and to
\* None in Gallery mode; a key with no binding in the current mode gives None.
C23_KeyBindings == C23_PressBindings /\ C23_ReleaseBindings

\* ---------------------------------------------------------------------------
\* Where a tag value is read: read_tag_value and parse_gps_tags on one entry
\* ---------------------------------------------------------------------------

\* the bytes an offset can point at: two numbers, then text
ValueRegion == <<1, 2, 3, 4, 5, 6, 7, 1, 65, 66, 67, 68, 69, 0, 71, 72>>

\* one 12-byte entry at position 0 and the bytes of ValueRegion from 12 on
entry_blob(le, tag, dtype, count, value) == ifd_entry(le, tag, dtype, count, u32_bytes(le, value)) \o ValueRegion

EntryTypeCodes == 0..12
EntryCounts24 == {0, 1, 2, 3, 4, 5, Big}
EntryOffsets == {12, 16, 20, 26, 1000}

TagValueInputs == [kind : {"read_tag_value"}, le : BOOLEAN, tag : {271, 274}, dtype : EntryTypeCodes, count : EntryCounts24, value : EntryOffsets]

\* a GPS IFD at position 0: the entry under test, then latitude, longitude
\* reference and longitude; 24 bytes of rationals at 54, "S" at 78
gps_blob(le, tag, dtype, count, field) ==
    u16_bytes(le, 4)
    \o ifd_entry(le, tag, dtype, count, field)
    \o ifd_entry(le, 2, 5, 3, u32_bytes(le, 54))
    \o ifd_entry(le, 3, 2, 2, <<87, 0, 0, 0>>)
    \o ifd_entry(le, 4, 5, 3, u32_bytes(le, 54))
    \o <<0, 0, 0, 0>>
    \o [i \in 1..24 |-> i % 4]
    \o <<83, 0, 0, 0, 2, 0, 0, 0>>

GpsFields == {<<78, 0, 0, 0>>, <<0, 0, 0, 78>>, <<54, 0, 0, 0>>, <<0, 0, 0, 54>>, <<0, 0, 3, 232>>}

GpsValueInputs == [kind : {"parse_gps_tags"}, le : BOOLEAN, tag : {1, 6, 7}, dtype : {0, 1, 2, 5, 10, 11}, count : {0, 1, 2, 3, 5}, field : GpsFields]

TagInit ==
    /\ op = "init"
    /\ inp \in TagValueInputs \cup GpsValueInputs
    /\ out = None
    /\ DecIdle

\* read_tag_value(d, entry_off + 8, dtype, count, le, tag), as parse_ifd_tags calls it
ReadTagValue ==
    /\ op = "init"
    /\ inp.kind = "read_tag_value"
    /\ op' = "read_tag_value"
    /\ out' = read_tag_value(entry_blob(inp.le, inp.tag, inp.dtype, inp.count, inp.value), 8, inp.dtype, inp.count, inp.le, inp.tag)
    /\ UNCHANGED <<inp, decVars>>

\* parse_gps_tags(d, ifd_offset, le, &mut tags) with no tag collected before
ParseGpsTags ==
    /\ op = "init"
    /\ inp.kind = "parse_gps_tags"
    /\ op' = "parse_gps_tags"
    /\ out' = parse_gps_tags(gps_blob(inp.le, inp.tag, inp.dtype, inp.count, inp.field), 0, inp.le, <<>>)
    /\ UNCHANGED <<inp, decVars>>

TagNext == ReadTagValue \/ ParseGpsTags

TagSpec == TagInit /\ [][TagNext]_vars

\* the size of a TIFF type: BYTE, ASCII, SHORT, LONG, RATIONAL, SBYTE,
\* UNDEFINED, SSHORT, SLONG, SRATIONAL
C24_TypeSize(dtype) == CASE dtype \in {1, 2, 6, 7} -> 1 [] dtype \in {3, 8} -> 2 [] dtype \in {4, 9} -> 4 [] dtype \in {5, 10} -> 8 [] OTHER -> 0

\* the bytes the entry under test is read from
C24_Blob == IF inp.kind = "read_tag_value" THEN entry_blob(inp.le, inp.tag, inp.dtype, inp.count, inp.value) ELSE gps_blob(inp.le, inp.tag, inp.dtype, inp.count, inp.field)

\* where its 4-byte value field is
C24_Field == IF inp.kind = "read_tag_value" THEN 8 ELSE 10

\* where the value is: the field itself, or the position stored in it
C24_Where == IF C24_TypeSize(inp.dtype) * inp.count <= 4 THEN C24_Field ELSE u32_at(C24_Blob, inp.le, C24_Field).val

\* the value of the entry's type that stands at position loc
C24_ValueAt(loc) ==
    CASE inp.dtype = 2 -> ascii_text(printable(SubSeq(C24_Blob, loc + 1, loc + position_of_nul(SubSeq(C24_Blob, loc + 1, loc + inp.count), 0))))
      [] inp.dtype = 3 -> [fmt |-> "short", tag |-> inp.tag, val |-> u16_at(C24_Blob, inp.le, loc).val]
      [] inp.dtype = 4 -> [fmt |-> "long", tag |-> inp.tag, val |-> u32_at(C24_Blob, inp.le, loc).val]
      [] inp.dtype = 5 -> [fmt |-> "rational", tag |-> inp.tag, val |-> <<u32_at(C24_Blob, inp.le, loc).val, u32_at(C24_Blob, inp.le, loc + 4).val>>]
      [] inp.dtype = 10 -> [fmt |-> "srational", tag |-> inp.tag, val |-> <<i32_at(C24_Blob, inp.le, loc).val, i32_at(C24_Blob, inp.le, loc + 4).val>>]

C24_GpsTag == IsSome(out) /\ \E i \in 1..Len(out.val) : out.val[i][1] = "GPS"
C24_Altitude == IsSome(out) /\ \E i \in 1..Len(out.val) : out.val[i][1] = "Altitude"

\* the value is read at C24_Where
C24_InlineOrOffset ==
    /\ op = "read_tag_value" /\ IsSome(out) => out.val = C24_ValueAt(C24_Where)
    /\ op = "parse_gps_tags" /\ inp.tag = 1 /\ C24_GpsTag => out.val[1][2].val[2] = (C24_Blob[C24_Where + 1] = 83)
    /\ op = "parse_gps_tags" /\ inp.tag = 6 /\ C24_Altitude => out.val[1][2].val[1] = (IF C24_Where + 4 > Len(C24_Blob) THEN 0 ELSE u32_at(C24_Blob, inp.le, C24_Where).val)

\* an entry of a type code outside 1..10 produces no tag
C24_UnknownTypeSkipped ==
    /\ op = "read_tag_value" /\ inp.dtype \notin 1..10 => out = None
    /\ op = "parse_gps_tags" /\ inp.dtype \notin 1..10 => out = Some(<<>>)

\* C24: in read_tag_value and in parse_gps_tags a value is taken from the
\* entry's own 4-byte value field exactly when type_size(type) * count <= 4 and
\* otherwise from the position the field stores; an entry whose type code is
\* outside 1..10 produces no tag.
C24_ValuePlacement == C24_InlineOrOffset /\ C24_UnknownTypeSkipped

\* ---------------------------------------------------------------------------
\* The loops of the metadata walkers, one iteration at a time
\* ---------------------------------------------------------------------------

\* the loop goes round again with pos set; every other value ends the loop
Continue(pos) == [tag |-> "Continue", pos |-> pos]

\* read_exif_orientation, read_exif_tags: one round of while pos + 4 < data.len()
jpeg_segment_round(data, pos) ==
    IF ~(pos + 4 < Len(data)) THEN None
    ELSE IF data[pos + 1] # 255 THEN None
    ELSE LET marker == data[pos + 2]
             seg_len == u16_at(data, FALSE, pos + 2).val
             seg_start == pos + 4
         IN  IF marker = 225
             THEN IF seg_start + 6 > Len(data) THEN None
                  ELSE IF SubSeq(data, seg_start + 1, seg_start + 6) # Exif00 THEN Continue(pos + 2 + seg_len)
                  ELSE Some(seg_start + 6)
             ELSE IF marker = 218 THEN None
             ELSE Continue(pos + 2 + seg_len)

\* extract_png_exif: one round of while pos + 12 <= data.len()
png_chunk_round(data, pos) ==
    IF ~(pos + 12 <= Len(data)) THEN None
    ELSE LET chunk_len == u32_at(data, FALSE, pos).val
             payload_end == pos + 8 + chunk_len
         IN  IF SubSeq(data, pos + 5, pos + 8) = eXIf
             THEN IF payload_end > Len(data) THEN None ELSE Some(pos + 8)
             ELSE Continue(payload_end + 4)

\* extract_webp_exif: one round of while pos + 8 <= data.len()
riff_chunk_round(data, pos) ==
    IF ~(pos + 8 <= Len(data)) THEN None
    ELSE LET chunk_size == u32_at(data, TRUE, pos + 4).val
             payload_start == pos + 8
             padded_size == chunk_size + (chunk_size % 2)
         IN  IF SubSeq(data, pos + 1, pos + 4) = EXIF
             THEN IF payload_start + chunk_size > Len(data) THEN None ELSE Some(payload_start)
             ELSE Continue(payload_start + padded_size)

\* extract_avif_exif: one round of while pos + 8 <= data.len()
isobmff_box_round(data, build, pos) ==
    IF ~(pos + 8 <= Len(data)) THEN None
    ELSE LET box_size == u32_at(data, FALSE, pos).val
             actual_size == IF box_size = 0 THEN Some(Len(data) - pos)
                            ELSE IF box_size = 1 THEN extended_size(data, pos)
                            ELSE Some(box_size)
         IN  IF ~IsSome(actual_size) THEN None
             ELSE IF lt_usize(actual_size.val, 8) THEN None
             ELSE LET end == add_usize(pos, actual_size.val, build)
                  IN  IF ~IsSome(end) THEN end
                      ELSE IF gt_usize(end.val, Len(data)) THEN None
                      ELSE LET inner == IF SubSeq(data, pos + 5, pos + 8) = meta THEN slice(data, pos + 12, end.val) ELSE None
                               found == IF IsSome(inner) THEN find_exif_in_meta(inner.val) ELSE inner
                           IN  IF found.tag # "None" THEN found ELSE Continue(end.val)

\* extract_jxl_exif: one round of while pos + 8 <= data.len()
jxl_box_round(data, build, pos) ==
    IF ~(pos + 8 <= Len(data)) THEN None
    ELSE LET box_size == u32_at(data, FALSE, pos).val
             header_size == IF box_size = 1 THEN 16 ELSE 8
             actual_size == IF box_size = 0 THEN Some(Len(data) - pos)
                            ELSE IF box_size = 1 THEN extended_size(data, pos)
                            ELSE Some(box_size)
         IN  IF ~IsSome(actual_size) THEN None
             ELSE IF lt_usize(actual_size.val, header_size) THEN None
             ELSE LET end == add_usize(pos, actual_size.val, build)
                  IN  IF ~IsSome(end) THEN end
                      ELSE IF gt_usize(end.val, Len(data)) THEN None
                      ELSE IF SubSeq(data, pos + 5, pos + 8) = Exif THEN slice(data, pos + header_size, end.val)
                      ELSE Continue(end.val)

\* where each walker sets pos before its loop, None when it returns before
walk_start(kind, data) ==
    CASE kind = "jpeg" -> IF Len(data) < 4 \/ data[1] # 255 \/ data[2] # 216 THEN None ELSE Some(2)
      [] kind = "png" -> IF Len(data) < 8 \/ SubSeq(data, 1, 4) # x89PNG THEN None ELSE Some(8)
      [] kind = "webp" -> IF Len(data) < 12 \/ SubSeq(data, 1, 4) # RIFF \/ SubSeq(data, 9, 12) # WEBP THEN None ELSE Some(12)
      [] kind = "avif" -> Some(0)
      [] kind = "jxl" -> IF Len(data) < 12 \/ SubSeq(data, 1, 12) # jxl_sig THEN None ELSE Some(0)

\* parse_all_exif_tags up to the call for IFD0: the slice, the byte order and
\* the offset of IFD0, None when it returns before
tiff_ifd0(data, tiff_offset) ==
    IF tiff_offset + 8 > Len(data) THEN None
    ELSE LET d == slice_from(data, tiff_offset).val
             le == byte_order(d)
             magic == read_u16(d, le.val, 2)
             ifd_offset == read_u32(d, le.val, 4)
         IN  IF ~IsSome(le) THEN None
             ELSE IF ~IsSome(magic) \/ magic.val # 42 THEN None
             ELSE IF ~IsSome(ifd_offset) THEN None
             ELSE Some([d |-> d, le |-> le.val, ifd_offset |-> ifd_offset.val])

\* a TIFF file whose IFD0 names itself, or the IFD at 26, as EXIF sub-IFD and as GPS IFD
BackPointingInputs ==
    { Malformed("tiff",
                tiff_header(IF le THEN <<73, 73>> ELSE <<77, 77>>, le, 42, 8)
                \o u16_bytes(le, 2)
                \o ifd_entry(le, 34665, 4, 1, u32_bytes(le, sub_ifd))
                \o ifd_entry(le, 34853, 4, 1, u32_bytes(le, gps_at))
                \o <<0, 0, 0, 0>>) :
        le \in BOOLEAN, sub_ifd \in {8, 26, 1000}, gps_at \in {8, 26, 1000} }

WalkInputs == ExifInputs \cup BackPointingInputs

WalkInit ==
    /\ op = "init"
    /\ inp \in WalkInputs
    /\ out = None
    /\ DecIdle

walkVars == <<inp, file, fmt, bytes_read, dims, log, frames, result>>

\* the checks before the loop, and let mut pos
WalkBegin ==
    /\ op = "init"
    /\ inp.kind # "tiff"
    /\ LET start == walk_start(inp.kind, inp.data)
       IN  IF IsSome(start)
           THEN op' = "loop" /\ idx' = start.val /\ out' = out
           ELSE op' = "return" /\ idx' = idx /\ out' = None
    /\ UNCHANGED <<walkVars, pc>>

\* one round of a loop: pos is set and the loop goes on, or the walker returns
Round(next) ==
    /\ op = "loop"
    /\ IF next.tag = "Continue"
       THEN op' = "loop" /\ idx' = next.pos /\ out' = out
       ELSE op' = "return" /\ idx' = idx /\ out' = next
    /\ UNCHANGED <<walkVars, pc>>

JpegSegment == inp.kind = "jpeg" /\ Round(jpeg_segment_round(inp.data, idx))
PngChunk == inp.kind = "png" /\ Round(png_chunk_round(inp.data, idx))
RiffChunk == inp.kind = "webp" /\ Round(riff_chunk_round(inp.data, idx))
IsobmffBox == inp.kind = "avif" /\ Round(isobmff_box_round(inp.data, inp.build, idx))
JxlBox == inp.kind = "jxl" /\ Round(jxl_box_round(inp.data, inp.build, idx))

\* parse_all_exif_tags: Parse IFD0
ParseIfd0 ==
    /\ op = "init"
    /\ inp.kind = "tiff"
    /\ LET t == tiff_ifd0(inp.data, inp.tiff_offset)
       IN  IF IsSome(t)
           THEN /\ op' = "ifd0"
                /\ pc' = 1
                /\ out' = parse_ifd_tags(t.val.d, t.val.ifd_offset, t.val.le, IFD0_TAGS, IfdResult(<<>>, None, None))
           ELSE op' = "return" /\ pc' = pc /\ out' = Some(IfdResult(<<>>, None, None))
    /\ UNCHANGED <<walkVars, idx>>

\* parse_all_exif_tags: Parse EXIF sub-IFD; what it finds of sub-IFD offsets
\* is written to temporaries
ParseExifIfd ==
    /\ op = "ifd0"
    /\ IsSome(out)
    /\ IsSome(out.val.exif_ifd)
    /\ LET t == tiff_ifd0(inp.data, inp.tiff_offset).val
           sub == parse_ifd_tags(t.d, out.val.exif_ifd.val, t.le, EXIF_TAGS, IfdResult(out.val.tags, None, None))
       IN  out' = IF IsSome(sub) THEN Some(IfdResult(sub.val.tags, None, out.val.gps_ifd)) ELSE sub
    /\ op' = "exif_ifd"
    /\ pc' = pc + 1
    /\ UNCHANGED <<walkVars, idx>>

\* parse_all_exif_tags: Parse GPS IFD, and return tags
ParseGpsIfd ==
    /\ op \in {"ifd0", "exif_ifd"}
    /\ IsSome(out)
    /\ op = "ifd0" => ~IsSome(out.val.exif_ifd)
    /\ IsSome(out.val.gps_ifd)
    /\ LET t == tiff_ifd0(inp.data, inp.tiff_offset).val
           tags == parse_gps_tags(t.d, out.val.gps_ifd.val, t.le, out.val.tags)
       IN  out' = IF IsSome(tags) THEN Some(IfdResult(tags.val, None, None)) ELSE tags
    /\ op' = "return"
    /\ pc' = pc + 1
    /\ UNCHANGED <<walkVars, idx>>

WalkNext ==
    \/ WalkBegin
    \/ JpegSegment
    \/ PngChunk
    \/ RiffChunk
    \/ IsobmffBox
    \/ JxlBox
    \/ ParseIfd0
    \/ ParseExifIfd
    \/ ParseGpsIfd

WalkSpec == WalkInit /\ [][WalkNext]_vars

\* from one round of a loop to the next the read position grows
C25_PositionGrows == op = "loop" /\ op' = "loop" => idx' > idx

\* no more than three IFDs are parsed
C25_ThreeIfds == pc' <= 3

\* C25: every metadata walker terminates: in the JPEG segment, PNG chunk, RIFF
\* chunk, ISOBMFF box and JPEG-XL box loops the read position strictly
\* increases on every iteration, also for a size of 0, for an extended size up
\* to 2^64 - 1 and for sizes past the end of the file, and the tag walker
\* parses at most three IFDs.
C25_WalkersAdvance == [][C25_PositionGrows /\ C25_ThreeIfds]_vars

\* ---------------------------------------------------------------------------
\* load_jxl: the frames the JxlDecoderProcessInput loop collects
\* ---------------------------------------------------------------------------

\* most passes of the loop in a run
MaxStatuses == 6

\* the locals of the loop: info is set at JXL_DEC_BASIC_INFO, frames holds the
\* dimensions of each image pushed, current_buffer its length; announced says
\* that libjxl has reported a frame and not yet its pixels
JxlLocals(info, is_animated, frame_dims, current_buffer, announced) == [info |-> info, is_animated |-> is_animated, frames |-> frame_dims, current_buffer |-> current_buffer, announced |-> announced]

\* RgbaImage::new(1, 1), the placeholder
placeholder == <<1, 1>>

\* JXL_DEC_FRAME: the output buffer, and for an animation the placeholder
jxl_on_frame(l) == JxlLocals(l.info, l.is_animated, IF l.is_animated THEN Append(l.frames, placeholder) ELSE l.frames, inp.xsize * inp.ysize * 4, TRUE)

\* JXL_DEC_FULL_IMAGE for an animation: frames.last_mut() takes the image
jxl_on_full_image(l) == JxlLocals(l.info, l.is_animated, IF l.frames # <<>> THEN [l.frames EXCEPT ![Len(l.frames)] = <<inp.xsize, inp.ysize>>] ELSE l.frames, 0, FALSE)

\* after the loop: cleanup_jxl, orientation of every frame, the result
jxl_after_loop(l) ==
    IF l.is_animated /\ l.frames # <<>>
    THEN Ok([kind |-> "Animated", frames |-> [k \in 1..Len(l.frames) |-> IF inp.orientation >= 2 /\ inp.orientation <= 8 THEN oriented(l.frames[k][1], l.frames[k][2], inp.orientation) ELSE l.frames[k]]])
    ELSE Err("JXL contains no frames")

JxlFilesDecoded == [kind : {"load_jxl"}, xsize : {1, 2, 3}, ysize : {1, 2}, have_animation : BOOLEAN, orientation : {1, 3, 6}]

JxlLoopInit ==
    /\ op = "init"
    /\ inp \in JxlFilesDecoded
    /\ out = None
    /\ DecIdle

jxlVars == <<inp, file, fmt, pc, bytes_read, dims, log, frames, result>>

\* load_jxl up to the loop
JxlLoopBegin ==
    /\ op = "init"
    /\ op' = "loop"
    /\ out' = JxlLocals(FALSE, FALSE, <<>>, 0, FALSE)
    /\ UNCHANGED <<jxlVars, idx>>

\* one more status is taken from JxlDecoderProcessInput
Status == op = "loop" /\ idx < MaxStatuses /\ idx' = idx + 1 /\ UNCHANGED jxlVars

\* JXL_DEC_BASIC_INFO, reported once, before every frame
OnBasicInfo ==
    /\ Status
    /\ ~out.info
    /\ \/ op' = "loop" /\ out' = JxlLocals(TRUE, inp.have_animation, out.frames, out.current_buffer, out.announced)
       \/ op' = "return" /\ out' = Err("Failed to get JXL basic info")

\* JXL_DEC_FRAME, reported when the frame before it is complete
OnFrame ==
    /\ Status
    /\ out.info
    /\ ~out.announced
    /\ \/ op' = "loop" /\ out' = jxl_on_frame(out)
       \/ op' = "return" /\ out' = Err("Failed to get JXL output buffer size")

\* JXL_DEC_NEED_IMAGE_OUT_BUFFER
OnNeedImageOutBuffer ==
    /\ Status
    /\ out.announced
    /\ \/ op' = "loop" /\ out' = out
       \/ op' = "return" /\ out' = Err("Failed to set JXL output buffer")

\* JXL_DEC_FULL_IMAGE, reported for the frame announced
OnFullImage ==
    /\ Status
    /\ out.announced
    /\ IF out.current_buffer # inp.xsize * inp.ysize * 4
       THEN op' = "return" /\ out' = Err("JXL pixel buffer size mismatch")
       ELSE IF out.is_animated
       THEN op' = "loop" /\ out' = jxl_on_full_image(out)
       ELSE op' = "return" /\ out' = Ok([kind |-> "Static", frames |-> <<IF inp.orientation >= 2 /\ inp.orientation <= 8 THEN oriented(inp.xsize, inp.ysize, inp.orientation) ELSE <<inp.xsize, inp.ysize>> >>])

\* JXL_DEC_SUCCESS, reported when no frame is under way
OnSuccess ==
    /\ Status
    /\ ~out.announced
    /\ op' = "return"
    /\ out' = jxl_after_loop(out)

\* JXL_DEC_ERROR
OnError ==
    /\ Status
    /\ op' = "return"
    /\ out' = Err("JXL decode error")

\* every other status, such as JXL_DEC_NEED_MORE_INPUT for a file cut short
OnOtherStatus ==
    /\ Status
    /\ op' = "return"
    /\ out' = jxl_after_loop(out)

JxlLoopNext ==
    \/ JxlLoopBegin
    \/ OnBasicInfo
    \/ OnFrame
    \/ OnNeedImageOutBuffer
    \/ OnFullImage
    \/ OnSuccess
    \/ OnError
    \/ OnOtherStatus

JxlLoopSpec == JxlLoopInit /\ [][JxlLoopNext]_vars

\* the size of a decoded frame as load_jxl returns it
C26_FrameSize == IF inp.orientation >= 2 /\ inp.orientation <= 8 THEN oriented(inp.xsize, inp.ysize, inp.orientation) ELSE <<inp.xsize, inp.ysize>>

\* C26: for every sequence of statuses, an Animated image returned by load_jxl
\* contains only fully decoded frames of the image's size: no 1x1 placeholder
\* pushed at a FRAME event remains when the decoder stops before the matching
\* FULL_IMAGE event.
C26_OnlyDecodedFrames == op = "return" /\ IsOk(out) /\ out.val.kind = "Animated" => \A k \in 1..Len(out.val.frames) : out.val.frames[k] = C26_FrameSize

\* ---------------------------------------------------------------------------
\* The viewer application (src/app.rs, src/gallery.rs): the path list, the
\* current index, the gallery selection and the image cache
\* ---------------------------------------------------------------------------

\* files given on the command line, named 1.. in the order of their file names
NumPaths == 3

\* the fields of App and Gallery that decide an index
App(paths, current_index, mode, selected, image_cache, sort_mode) == [paths |-> paths, current_index |-> current_index, mode |-> mode, selected |-> selected, image_cache |-> image_cache, sort_mode |-> sort_mode]

\* a decoded image: the file it was decoded from, and the quarter turns given to it
LoadedOf(f, turns) == [file |-> f, turns |-> turns]

\* HashMap::new(), insert, remove
HashMapNew == [k \in {} |-> LoadedOf(0, 0)]
insert(map, k, v) == [j \in DOMAIN map \cup {k} |-> IF j = k THEN v ELSE map[j]]
remove(map, k) == [j \in DOMAIN map \ {k} |-> map[j]]

\* Vec::remove(idx)
vec_remove(v, i) == SubSeq(v, 1, i) \o SubSeq(v, i + 2, Len(v))

\* ensure_image_loaded: the cache after a failed path is removed, with the
\* entries above idx moved down by one
shifted_cache(map, i) == [j \in {k \in DOMAIN map : k < i} \cup {k - 1 : k \in {m \in DOMAIN map : m > i}} |-> IF j < i THEN map[j] ELSE map[j + 1]]

Panicked(a) == "tag" \in DOMAIN a

\* ensure_image_loaded, one pass of its loop after the other
RECURSIVE ensure_image_loaded(_)
ensure_image_loaded(a) ==
    IF a.paths = <<>> THEN a
    ELSE LET i == a.current_index
         IN  IF i \in DOMAIN a.image_cache THEN a
             ELSE IF i >= Len(a.paths) THEN Panic
             ELSE IF inp.loads[a.paths[i + 1]] THEN [a EXCEPT !.image_cache = insert(@, i, LoadedOf(a.paths[i + 1], 0))]
             ELSE LET paths == vec_remove(a.paths, i)
                      new_cache == shifted_cache(a.image_cache, i)
                  IN  IF paths = <<>> THEN [a EXCEPT !.paths = paths, !.image_cache = new_cache]
                      ELSE ensure_image_loaded([a EXCEPT !.paths = paths, !.image_cache = new_cache, !.current_index = IF i >= Len(paths) THEN 0 ELSE i])

navigate_to(a, target) ==
    IF a.paths = <<>> THEN a
    ELSE ensure_image_loaded([a EXCEPT !.current_index = target % Len(a.paths)])

\* SortMode::next
SortMode_next(m) == CASE m = "Name" -> "Size" [] m = "Size" -> "ExifDate" [] m = "ExifDate" -> "ModTime" [] m = "ModTime" -> "Name"

\* the key a path is sorted by: the file name, the size, the modification
\* time, the EXIF date where the file has one and else the modification time
sort_key(m, f) ==
    CASE m = "Name" -> f
      [] m = "Size" -> inp.size[f]
      [] m = "ModTime" -> inp.mtime[f]
      [] m = "ExifDate" -> IF inp.exif[f] # 0 THEN inp.exif[f] ELSE inp.mtime[f]

\* sort_by, sort_by_cached_key: a stable sort; the place of paths[i]
place_by(paths, m, i) == 1 + Cardinality({j \in 1..Len(paths) : sort_key(m, paths[j]) < sort_key(m, paths[i]) \/ (sort_key(m, paths[j]) = sort_key(m, paths[i]) /\ j < i)})

sorted_by(paths, m) == [p \in 1..Len(paths) |-> paths[CHOOSE i \in 1..Len(paths) : place_by(paths, m, i) = p]]

\* paths.iter().position(|p| p == path)
position(paths, f) == (CHOOSE i \in 1..Len(paths) : paths[i] = f /\ \A j \in 1..(i - 1) : paths[j] # f) - 1

cycle_sort(a) ==
    IF a.paths = <<>> THEN a
    ELSE LET old_index == a.current_index
             mode == SortMode_next(a.sort_mode)
             paths == sorted_by(a.paths, mode)
             current_index == IF old_index < Len(a.paths) THEN position(paths, a.paths[old_index + 1]) ELSE old_index
             image_cache == IF old_index # current_index /\ old_index \in DOMAIN a.image_cache THEN insert(HashMapNew, current_index, a.image_cache[old_index]) ELSE a.image_cache
         IN  App(paths, current_index, a.mode, current_index, image_cache, mode)

\* rotate_current_image
rotate_current_image(a, turns) ==
    IF a.current_index \in DOMAIN a.image_cache
    THEN [a EXCEPT !.image_cache = insert(remove(@, a.current_index), a.current_index, LoadedOf(a.image_cache[a.current_index].file, (a.image_cache[a.current_index].turns + turns) % 4))]
    ELSE a

\* Gallery: move_left, move_right, move_up, move_down, go_first, go_last
move_left(selected, total) == IF total = 0 THEN selected ELSE IF selected > 0 THEN selected - 1 ELSE selected
move_right(selected, total) == IF total = 0 THEN selected ELSE IF selected + 1 < total THEN selected + 1 ELSE selected
move_up(selected, cols) == IF selected >= cols THEN selected - cols ELSE selected
move_down(selected, cols, total) == IF total = 0 THEN selected ELSE IF selected + cols < total THEN selected + cols ELSE selected
go_last(selected, total) == IF total > 0 THEN total - 1 ELSE selected

\* which of the files decode, their sizes, times and EXIF dates (0: none),
\* and the columns of the gallery
AppInputs == [kind : {"app"}, count : {1, NumPaths}, loads : [1..NumPaths -> BOOLEAN], size : {[f \in 1..NumPaths |-> 1], [f \in 1..NumPaths |-> 1 + (f % 2)], [f \in 1..NumPaths |-> NumPaths + 1 - f]}, mtime : {[f \in 1..NumPaths |-> ((f + 1) % NumPaths) + 1]}, exif : {[f \in 1..NumPaths |-> IF f = 2 THEN 1 ELSE 0]}, cols : {2}]

\* App::new(paths, false)
AppInit ==
    /\ op = "new"
    /\ inp \in AppInputs
    /\ out = App([i \in 1..inp.count |-> i], 0, "Viewer", 0, HashMapNew, "Name")
    /\ DecIdle

\* the state an action leaves
Leaves(name, a) ==
    /\ IF Panicked(a) THEN op' = "panic" /\ out' = out ELSE op' = name /\ out' = a
    /\ UNCHANGED <<inp, decVars>>

AppRunning == op \notin {"new", "panic", "quit"}

\* run_viewer: Load first image
RunViewer == op = "new" /\ Leaves("run_viewer", ensure_image_loaded(out))

\* handle_action, one arm each; map_key gives an action in the mode it is bound in
Quit == AppRunning /\ op' = "quit" /\ UNCHANGED <<inp, out, decVars>>

EscapeOrQuit ==
    /\ AppRunning
    /\ IF out.mode = "Gallery"
       THEN Leaves("EscapeOrQuit", ensure_image_loaded([out EXCEPT !.mode = "Viewer", !.current_index = out.selected]))
       ELSE op' = "quit" /\ UNCHANGED <<inp, out, decVars>>

ToggleMode ==
    /\ AppRunning
    /\ IF out.mode = "Viewer"
       THEN Leaves("ToggleMode", [out EXCEPT !.mode = "Gallery", !.selected = out.current_index])
       ELSE Leaves("ToggleMode", navigate_to([out EXCEPT !.mode = "Viewer"], out.selected))

next_index(a) == IF a.current_index + 1 >= Len(a.paths) THEN 0 ELSE a.current_index + 1
prev_index(a) == IF a.current_index = 0 THEN Max(Len(a.paths) - 1, 0) ELSE a.current_index - 1

NextImage == AppRunning /\ out.mode = "Viewer" /\ Leaves("NextImage", navigate_to(out, next_index(out)))
PrevImage == AppRunning /\ out.mode = "Viewer" /\ Leaves("PrevImage", navigate_to(out, prev_index(out)))
FirstImage == AppRunning /\ out.mode = "Viewer" /\ Leaves("FirstImage", navigate_to(out, 0))
LastImage == AppRunning /\ out.mode = "Viewer" /\ Leaves("LastImage", IF out.paths # <<>> THEN navigate_to(out, Len(out.paths) - 1) ELSE out)

\* PanStart(dir) when the view is not zoomed: Left and Right navigate
PanStartNavigate ==
    /\ AppRunning
    /\ out.mode = "Viewer"
    /\ \E dir \in {"Left", "Right"} : Leaves("PanStart", navigate_to(out, IF dir = "Left" THEN prev_index(out) ELSE next_index(out)))

RotateImage ==
    /\ AppRunning
    /\ out.mode = "Viewer"
    /\ \E turns \in {1, 3} : Leaves("Rotate", rotate_current_image(out, turns))

GalleryMove ==
    /\ AppRunning
    /\ out.mode = "Gallery"
    /\ \E selected \in {move_left(out.selected, Len(out.paths)), move_right(out.selected, Len(out.paths)), move_up(out.selected, inp.cols), move_down(out.selected, inp.cols, Len(out.paths)), 0, go_last(out.selected, Len(out.paths))} :
           Leaves("GalleryMove", [out EXCEPT !.selected = selected])

CycleSort == AppRunning /\ Leaves("CycleSort", ensure_image_loaded(cycle_sort(out)))

AppNext ==
    \/ RunViewer
    \/ Quit
    \/ EscapeOrQuit
    \/ ToggleMode
    \/ NextImage
    \/ PrevImage
    \/ FirstImage
    \/ LastImage
    \/ PanStartNavigate
    \/ RotateImage
    \/ GalleryMove
    \/ CycleSort

AppSpec == AppInit /\ [][AppNext]_vars

\* the actions that end with ensure_image_loaded
C27_Ensured == op \in {"run_viewer", "EscapeOrQuit", "NextImage", "PrevImage", "FirstImage", "LastImage", "PanStart", "CycleSort"} \/ (op = "ToggleMode" /\ out.mode = "Viewer")

\* current_index is a valid index and no paths[i] is past the end
C27_IndexValid == op # "panic" /\ (out.paths # <<>> => out.current_index < Len(out.paths) /\ (out.mode = "Gallery" => out.selected < Len(out.paths)))

\* ensure_image_loaded has left an entry under the current index
C27_EntryCached == C27_Ensured => out.paths = <<>> \/ out.current_index \in DOMAIN out.image_cache

\* ensure_image_loaded has left the image of the current path cached
C27_CurrentCached == C27_Ensured => out.paths = <<>> \/ (out.current_index \in DOMAIN out.image_cache /\ out.image_cache[out.current_index].file = out.paths[out.current_index + 1])

\* C27: after any sequence of user actions interleaved with load failures,
\* current_index is a valid index whenever the list is not empty, no access
\* paths[i] is past the end, and ensure_image_loaded ends with the current
\* image cached or the list empty.
C27_IndicesValid == C27_IndexValid /\ C27_CurrentCached

\* C28: at every point image_cache[k] holds the decoded image of the file at
\* paths[k], also after a failed path is removed and after cycle_sort.
C28_CacheMatchesPaths == op # "new" => \A k \in DOMAIN out.image_cache : k < Len(out.paths) /\ out.image_cache[k].file = out.paths[k + 1]

\* ---------------------------------------------------------------------------
\* The gallery's background thumbnail worker (src/src/gallery.rs): render
\* dispatches the missing thumbnails of the visible rows, the worker thread
\* loads them one by one, poll_thumbnails takes the results.
\* ---------------------------------------------------------------------------

\* the number of files shown in the gallery
NumThumbs == 3

\* the number of redraws of the gallery
MaxRenders == 2

\* Gallery: thumbnails: HashMap, pending: HashSet, the channel main -> worker
\* (work), the batch the worker is in, the channel worker -> main (results)
GalleryState(thumbnails, pending, work, batch, results) == [thumbnails |-> thumbnails, pending |-> pending, work |-> work, batch |-> batch, results |-> results]

\* Gallery::has_pending
has_pending(g) == g.pending # {}

\* render: the indices of load_start..load_end that have no thumbnail and are
\* not pending, in order
render_batch(g, load_start, load_end) == LET missing(i) == i \notin DOMAIN g.thumbnails /\ i \notin g.pending IN SelectSeq([k \in 1..(load_end - load_start) |-> load_start + k - 1], missing)

\* render: the batch is pushed to the worker and its indices become pending
render(g, load_start, load_end) == LET b == render_batch(g, load_start, load_end) IN IF b = <<>> THEN g ELSE [g EXCEPT !.pending = @ \cup {b[k] : k \in 1..Len(b)}, !.work = Append(@, b)]

\* the worker thread's inner loop, one (index, path) of the batch: a result
\* is sent only when load_image_thumbnail is Ok
worker_step(g, loads) == IF loads[Head(g.batch)] THEN [g EXCEPT !.batch = Tail(@), !.results = Append(@, Head(g.batch))] ELSE [g EXCEPT !.batch = Tail(@)]

\* poll_thumbnails: every result in the channel is taken
poll_thumbnails(g) == LET got == {g.results[k] : k \in 1..Len(g.results)} IN [g EXCEPT !.thumbnails = [i \in DOMAIN @ \cup got |-> "thumb"], !.pending = @ \ got, !.results = <<>>]

\* which of the files load_image_thumbnail can decode
PendingInputs == [kind : {"gallery"}, loads : [0..(NumThumbs - 1) -> BOOLEAN]]

\* Gallery::new
PendingInit == inp \in PendingInputs /\ op = "new" /\ out = GalleryState(<<>>, {}, <<>>, <<>>, <<>>) /\ DecIdle

pendVars == <<inp, file, fmt, pc, bytes_read, dims, log, frames, result>>

\* a redraw in Gallery mode, for the rows the scroll position makes visible
Render == /\ idx < MaxRenders
          /\ \E load_start \in 0..NumThumbs : \E load_end \in load_start..NumThumbs : out' = render(out, load_start, load_end)
          /\ idx' = idx + 1
          /\ op' = "render"
          /\ UNCHANGED pendVars

\* the worker thread: work_rx.recv()
WorkerRecv == /\ out.batch = <<>>
              /\ out.work # <<>>
              /\ out' = [out EXCEPT !.batch = Head(out.work), !.work = Tail(@)]
              /\ op' = "recv"
              /\ UNCHANGED <<idx, pendVars>>

\* the worker thread: one (index, path) of the batch
WorkerLoad == /\ out.batch # <<>>
              /\ out' = worker_step(out, inp.loads)
              /\ op' = "load"
              /\ UNCHANGED <<idx, pendVars>>

\* the event loop in Gallery mode: poll_thumbnails, with a result waiting
PollThumbnails == /\ out.results # <<>>
                  /\ out' = poll_thumbnails(out)
                  /\ op' = "poll"
                  /\ UNCHANGED <<idx, pendVars>>

PendingNext == Render \/ WorkerRecv \/ WorkerLoad \/ PollThumbnails

\* the worker thread runs and the event loop polls while an index is pending
PendingSpec == PendingInit /\ [][PendingNext]_vars /\ WF_vars(WorkerRecv) /\ WF_vars(WorkerLoad) /\ WF_vars(PollThumbnails)

\* every index of a file that decodes leaves the pending set
C29_DecodedLeavePending == \A i \in 0..(NumThumbs - 1) : (i \in out.pending /\ inp.loads[i]) ~> (i \notin out.pending)

\* C29: every index dispatched to the worker leaves the pending set once the
\* worker has processed it, so has_pending() becomes false when no new
\* request is issued, also when the worker fails to decode a file.
C29_PendingDrains == has_pending(out) ~> ~has_pending(out)

\* ---------------------------------------------------------------------------
\* Sorting by EXIF date (src/src/app.rs): parse_exif_datetime turns the text
\* "YYYY:MM:DD HH:MM:SS" into the sort key of SortMode::ExifDate.
\* ---------------------------------------------------------------------------

DigitChars == <<"0", "1", "2", "3", "4", "5", "6", "7", "8", "9">>

\* the decimal digits of n, w characters wide
decimal_text(n, w) == [k \in 1..w |-> DigitChars[((n \div (10 ^ (w - k))) % 10) + 1]]

\* the text a camera writes for a date-time: "YYYY:MM:DD HH:MM:SS"
exif_text(t) == decimal_text(t.year, 4) \o <<":">> \o decimal_text(t.month, 2) \o <<":">> \o decimal_text(t.day, 2) \o <<" ">> \o decimal_text(t.hour, 2) \o <<":">> \o decimal_text(t.min, 2) \o <<":">> \o decimal_text(t.sec, 2)

\* s.split(|c| c == ':' || c == ' '): the parts between the separators
RECURSIVE split_parts(_, _)
split_parts(s, part) == IF s = <<>> THEN <<part>> ELSE IF Head(s) \in {":", " "} THEN <<part>> \o split_parts(Tail(s), <<>>) ELSE split_parts(Tail(s), Append(part, Head(s)))

\* str::parse::<u64>: decimal digits after an optional '+'
RECURSIVE digits_value(_, _)
digits_value(s, acc) == IF s = <<>> THEN Some(acc) ELSE IF \E v \in 0..9 : DigitChars[v + 1] = Head(s) THEN digits_value(Tail(s), acc * 10 + (CHOOSE v \in 0..9 : DigitChars[v + 1] = Head(s))) ELSE None

parse_u64(s) == LET body == IF s # <<>> /\ Head(s) = "+" THEN Tail(s) ELSE s IN IF body = <<>> THEN None ELSE digits_value(body, 0)

\* parse_exif_datetime
parse_exif_datetime(s) == LET parts == split_parts(s, <<>>) IN LET year == parse_u64(parts[1]).val month == parse_u64(parts[2]).val day == parse_u64(parts[3]).val hour == parse_u64(parts[4]).val min == parse_u64(parts[5]).val sec == parse_u64(parts[6]).val IN IF Len(parts) < 6 THEN None ELSE IF \E k \in 1..6 : ~IsSome(parse_u64(parts[k])) THEN None ELSE IF year < 1970 \/ month = 0 \/ month > 12 \/ day = 0 \/ day > 31 THEN None ELSE Some(((year - 1970) * 365 + ((year - 1969) \div 4) + (month - 1) * 30 + day) * 86400 + hour * 3600 + min * 60 + sec)

\* cycle_sort, SortMode::ExifDate: the key of a file is its EXIF timestamp,
\* or its modification time when it has none
exif_sort_key(exif_ts, mtime) == IF IsSome(exif_ts) THEN exif_ts.val ELSE mtime

\* sort_by_cached_key on two paths: stable, the second moves to the front
\* only when its key is smaller
sort_two_by_key(key1, key2) == IF key2 < key1 THEN <<2, 1>> ELSE <<1, 2>>

is_leap_year(y) == (y % 4 = 0 /\ y % 100 # 0) \/ y % 400 = 0

days_in_month(y, m) == IF m = 2 THEN (IF is_leap_year(y) THEN 29 ELSE 28) ELSE IF m \in {4, 6, 9, 11} THEN 30 ELSE 31

\* a real calendar date-time of 1970 or later
real_date_time(t) == t.year >= 1970 /\ t.month \in 1..12 /\ t.day \in 1..days_in_month(t.year, t.month) /\ t.hour \in 0..23 /\ t.min \in 0..59 /\ t.sec \in 0..59

\* a is chronologically earlier than b
earlier(a, b) == LET ka == <<a.year, a.month, a.day, a.hour, a.min, a.sec>> kb == <<b.year, b.month, b.day, b.hour, b.min, b.sec>> IN \E k \in 1..6 : ka[k] < kb[k] /\ \A j \in 1..(k - 1) : ka[j] = kb[j]

DateYears == {1969, 1970, 1972, 1973}

DateMonths == {0, 1, 2, 3, 12, 13}

DateDays == {0, 1, 28, 29, 30, 31}

DayTimes == {[hour |-> 0, min |-> 0, sec |-> 0], [hour |-> 23, min |-> 59, sec |-> 59]}

\* the date-times of the photos: real ones, and ones the parser has to refuse
DateTimes == LET all == {[year |-> y, month |-> m, day |-> d, hour |-> t.hour, min |-> t.min, sec |-> t.sec] : y \in DateYears, m \in DateMonths, d \in DateDays, t \in DayTimes} IN {t \in all : real_date_time(t)} \cup {t \in all : t.hour = 0 /\ ((t.year = 1969 /\ t.month = 1 /\ t.day = 1) \/ (t.year = 1970 /\ t.month \in {0, 13} /\ t.day = 1) \/ (t.year = 1970 /\ t.month = 1 /\ t.day = 0))}

\* two photos, a first in the list: their date-times, how much of the text
\* the file holds, and the modification time of the files
DateInputs == [kind : {"exif_date"}, a : DateTimes, b : DateTimes, chars : {16, 19}, mtime : {0, 200000000}]

DateInit == inp \in DateInputs /\ op = "init" /\ out = None /\ DecIdle

\* parse_exif_date_original for both files
ParseExifDatetime == /\ op = "init"
                     /\ out' = [a |-> parse_exif_datetime(SubSeq(exif_text(inp.a), 1, inp.chars)), b |-> parse_exif_datetime(exif_text(inp.b)), paths |-> <<1, 2>>]
                     /\ op' = "parse"
                     /\ UNCHANGED <<inp, decVars>>

\* cycle_sort to SortMode::ExifDate
SortByExifDate == /\ op = "parse"
                  /\ out' = [out EXCEPT !.paths = sort_two_by_key(exif_sort_key(out.a, inp.mtime), exif_sort_key(out.b, inp.mtime))]
                  /\ op' = "sort"
                  /\ UNCHANGED <<inp, decVars>>

DateNext == ParseExifDatetime \/ SortByExifDate

DateSpec == DateInit /\ [][DateNext]_vars

\* both texts are whole and hold real date-times
C30_BothValid == inp.chars = 19 /\ real_date_time(inp.a) /\ real_date_time(inp.b)

\* every real date-time is parsed
C30_Parsed == op \in {"parse", "sort"} /\ C30_BothValid => IsSome(out.a) /\ IsSome(out.b)

\* the earlier date-time has no greater timestamp
C30_TimestampsOrdered == op \in {"parse", "sort"} /\ C30_BothValid => (earlier(inp.a, inp.b) => out.a.val <= out.b.val) /\ (earlier(inp.b, inp.a) => out.b.val <= out.a.val)

\* the sort leaves the earlier photo in front
C30_SortedByDate == op = "sort" /\ C30_BothValid => (earlier(inp.a, inp.b) => out.paths = <<1, 2>>) /\ (earlier(inp.b, inp.a) => out.paths = <<2, 1>>)

\* C30: for two valid EXIF date-times a and b with a chronologically earlier
\* than b, parse_exif_datetime(a) is not greater than parse_exif_datetime(b),
\* so sorting by EXIF date never puts a later photo before an earlier one.
C30_GoodEnoughForSorting == C30_TimestampsOrdered /\ C30_SortedByDate

====
